---- MODULE Spec2Model ----
(***************************************************************************)
(* Model of the aero-work backend: the SessionState update fold            *)
(* (core/session_state.rs), the SessionStateManager that owns it           *)
(* (core/session_state_manager.rs) and the permission-request rendezvous   *)
(* between the ACP transport (acp/client.rs) and the WebSocket gateway     *)
(* (server/websocket.rs).                                                  *)
(*                                                                         *)
(* Conventions: Option<T> is a sequence of length 0 (None) or 1 (Some);    *)
(* a Vec is a sequence, and positions stored in tool_calls_map are 0-based *)
(* as in the source, so chat_items[idx] of the source is chat_items[idx+1].*)
(* A String is a sequence of characters and push_str is \o.                *)
(***************************************************************************)
EXTENDS Integers, Sequences, FiniteSets, TLC

\* ------------------------------------------------------------------ bounds
\* Number of mutating calls (apply_update, add_user_message, load_history)
\* made on the session.
MaxOps == 3

\* ------------------------------------------------------------ Option<T>
None == <<>>
Some(v) == <<v>>
IsSome(o) == Len(o) = 1
Unwrap(o) == o[1]

\* ------------------------------------------------------------ acp types
ToolCallIds == {"t1", "t2"}
Texts == {<<"A">>, <<"B">>}

TextBlock(text) == [type |-> "text", text |-> text]
ImageBlock == [type |-> "image", text |-> <<>>]
ContentBlock == {TextBlock(x) : x \in Texts} \cup {ImageBlock}

ToolCall(id, title, status) ==
    [tool_call_id |-> id, title |-> title, kind |-> None, status |-> status,
     raw_input |-> None, raw_output |-> None, content |-> None, locations |-> None]

ToolCallUpdate(id, title, kind, status, raw_input, raw_output, content, locations) ==
    [tool_call_id |-> id, title |-> title, kind |-> kind, status |-> status,
     raw_input |-> raw_input, raw_output |-> raw_output, content |-> content,
     locations |-> locations]

\* The tool-call updates the agent is taken to send: the empty update, the
\* status/raw_output completion, and a report of every other field.
ToolCallUpdates ==
    { ToolCallUpdate("t1", None, None, None, None, None, None, None),
      ToolCallUpdate("t1", None, None, Some("completed"), None, Some("42"), None, None),
      ToolCallUpdate("t1", Some("T1"), Some("edit"), None, Some("in2"), None, Some("out"), Some("loc")),
      ToolCallUpdate("t2", None, None, Some("completed"), None, Some("42"), None, None) }

SessionUpdate ==
         { [sessionUpdate |-> "agent_message_chunk", content |-> c] : c \in ContentBlock }
    \cup { [sessionUpdate |-> "user_message_chunk", content |-> c] : c \in ContentBlock }
    \cup { [sessionUpdate |-> "agent_thought_chunk", content |-> TextBlock(<<"A">>)] }
    \cup { [sessionUpdate |-> "tool_call", tool_call |-> ToolCall(id, "T0", Some("pending"))]
           : id \in ToolCallIds }
    \cup { [sessionUpdate |-> "tool_call_update", tool_call_update |-> u] : u \in ToolCallUpdates }
    \cup { [sessionUpdate |-> "plan", plan |-> "P1"] }
    \cup { [sessionUpdate |-> "available_commands_update", available_commands |-> "C1"] }
    \cup { [sessionUpdate |-> "current_mode_update", current_mode_id |-> "M2"] }

\* ------------------------------------------------- core/session_state.rs
MessageItem(id, role, content, timestamp) ==
    [type |-> "message",
     message |-> [id |-> id, role |-> role, content |-> content, timestamp |-> timestamp]]

ToolCallItem(tc) == [type |-> "tool_call", tool_call |-> tc]

IsMessage(item) == item.type = "message"
IsToolCall(item) == item.type = "tool_call"

\* HashMap::insert
MapInsert(m, k, v) == [x \in (DOMAIN m) \cup {k} |-> IF x = k THEN v ELSE m[x]]
EmptyMap == [x \in {} |-> 0]

\* SessionState::new followed by create_session's set_modes: the fields of a
\* SessionState. next_uuid numbers the ids Uuid::new_v4() hands out.
NewSessionState(modes, now) ==
    [chat_items |-> <<>>, tool_calls_map |-> EmptyMap, plan |-> None, modes |-> modes,
     available_commands |-> None, updated_at |-> now, next_uuid |-> 1]

\* Uuid::new_v4(): a value no earlier message carries.
NewUuid(s) == <<"uuid", s.next_uuid>>

Last(seq) == seq[Len(seq)]

\* SessionStateUpdate: the delta a mutating call returns.
Noop == [updateType |-> "noop"]
MessageChunk(content) == [updateType |-> "message_chunk", content |-> content]
MessageAdded(message) == [updateType |-> "message_added", message |-> message]
ToolCallAdded(tc) == [updateType |-> "tool_call_added", tool_call |-> tc]
ToolCallUpdated(tc) == [updateType |-> "tool_call_updated", tool_call |-> tc]
PlanUpdated(plan) == [updateType |-> "plan_updated", plan |-> plan]
AvailableCommandsUpdated(commands) == [updateType |-> "available_commands_updated", commands |-> commands]
CurrentModeUpdated(mode_id) == [updateType |-> "current_mode_updated", mode_id |-> mode_id]

\* What a call on a SessionState leaves behind: the state, the returned delta,
\* and whether the call panicked (an out-of-range chat_items[idx]).
Outcome(state, delta) == [state |-> state, delta |-> delta, panic |-> FALSE]
Panic(state) == [state |-> state, delta |-> Noop, panic |-> TRUE]

\* The loop of load_history: insert every ToolCall item's id with its index.
RECURSIVE IndexHistory(_, _, _)
IndexHistory(map, items, idx) ==
    IF idx >= Len(items) THEN map
    ELSE LET item == items[idx + 1] IN
         IndexHistory(IF IsToolCall(item)
                         THEN MapInsert(map, item.tool_call.tool_call_id, idx)
                         ELSE map,
                      items, idx + 1)

\* Mutant of load_history: replaces chat_items and leaves the index unbuilt.
load_history_without_index(s, items, now) ==
    [s EXCEPT !.chat_items = items,
              !.updated_at = now]

load_history(s, items, now) ==
    [s EXCEPT !.tool_calls_map = IndexHistory(s.tool_calls_map, items, 0),
              !.chat_items = items,
              !.updated_at = now]

\* Mutant of add_user_message: the supplied message id is ignored.
add_user_message_fresh_id(s, content, message_id, now) ==
    LET message == [id |-> NewUuid(s), role |-> "user", content |-> content,
                    timestamp |-> now]
    IN Outcome([s EXCEPT !.chat_items = Append(s.chat_items, [type |-> "message", message |-> message]),
                         !.next_uuid = @ + 1,
                         !.updated_at = now],
               MessageAdded(message))

\* Mutant of add_user_message: extends a trailing user message like a chunk.
add_user_message_merging(s, content, message_id, now) ==
    LET message == [id |-> IF IsSome(message_id) THEN Unwrap(message_id) ELSE NewUuid(s),
                    role |-> "user", content |-> content, timestamp |-> now]
    IN IF /\ Len(s.chat_items) > 0
          /\ IsMessage(Last(s.chat_items))
          /\ Last(s.chat_items).message.role = "user"
       THEN Outcome([s EXCEPT !.chat_items[Len(s.chat_items)].message.content = @ \o content,
                              !.updated_at = now],
                    MessageChunk(content))
       ELSE Outcome([s EXCEPT !.chat_items = Append(s.chat_items, [type |-> "message", message |-> message]),
                              !.next_uuid = IF IsSome(message_id) THEN @ ELSE @ + 1,
                              !.updated_at = now],
                    MessageAdded(message))

add_user_message(s, content, message_id, now) ==
    LET message == [id |-> IF IsSome(message_id) THEN Unwrap(message_id) ELSE NewUuid(s),
                    role |-> "user", content |-> content, timestamp |-> now]
    IN Outcome([s EXCEPT !.chat_items = Append(s.chat_items, [type |-> "message", message |-> message]),
                         !.next_uuid = IF IsSome(message_id) THEN @ ELSE @ + 1,
                         !.updated_at = now],
               MessageAdded(message))

\* Mutant of handle_agent_message_chunk: never merges, every chunk is a message.
handle_agent_message_chunk_always_new(s, content, now) ==
    IF content.type # "text" THEN Outcome(s, Noop)
    ELSE LET message == [id |-> NewUuid(s), role |-> "assistant",
                         content |-> content.text, timestamp |-> now]
         IN Outcome([s EXCEPT !.chat_items = Append(@, [type |-> "message", message |-> message]),
                              !.next_uuid = @ + 1],
                    MessageAdded(message))

handle_agent_message_chunk(s, content, now) ==
    IF content.type # "text" THEN Outcome(s, Noop)
    ELSE IF /\ Len(s.chat_items) > 0
            /\ IsMessage(Last(s.chat_items))
            /\ Last(s.chat_items).message.role = "assistant"
    THEN Outcome([s EXCEPT !.chat_items[Len(s.chat_items)].message.content = @ \o content.text,
                           !.chat_items[Len(s.chat_items)].message.timestamp = now],
                 MessageChunk(content.text))
    ELSE LET message == [id |-> NewUuid(s), role |-> "assistant",
                         content |-> content.text, timestamp |-> now]
         IN Outcome([s EXCEPT !.chat_items = Append(@, [type |-> "message", message |-> message]),
                              !.next_uuid = @ + 1],
                    MessageAdded(message))

\* Mutant of handle_user_message_chunk: merges into a trailing message of
\* either role (the role test dropped).
handle_user_message_chunk_any_role(s, content, now) ==
    IF content.type # "text" THEN Outcome(s, Noop)
    ELSE IF /\ Len(s.chat_items) > 0
            /\ IsMessage(Last(s.chat_items))
    THEN Outcome([s EXCEPT !.chat_items[Len(s.chat_items)].message.content = @ \o content.text,
                           !.chat_items[Len(s.chat_items)].message.timestamp = now],
                 MessageChunk(content.text))
    ELSE LET message == [id |-> NewUuid(s), role |-> "user",
                         content |-> content.text, timestamp |-> now]
         IN Outcome([s EXCEPT !.chat_items = Append(@, [type |-> "message", message |-> message]),
                              !.next_uuid = @ + 1],
                    MessageAdded(message))

handle_user_message_chunk(s, content, now) ==
    IF content.type # "text" THEN Outcome(s, Noop)
    ELSE IF /\ Len(s.chat_items) > 0
            /\ IsMessage(Last(s.chat_items))
            /\ Last(s.chat_items).message.role = "user"
    THEN Outcome([s EXCEPT !.chat_items[Len(s.chat_items)].message.content = @ \o content.text,
                           !.chat_items[Len(s.chat_items)].message.timestamp = now],
                 MessageChunk(content.text))
    ELSE LET message == [id |-> NewUuid(s), role |-> "user",
                         content |-> content.text, timestamp |-> now]
         IN Outcome([s EXCEPT !.chat_items = Append(@, [type |-> "message", message |-> message]),
                              !.next_uuid = @ + 1],
                    MessageAdded(message))

\* The seven "if let Some(..) = update.x" of handle_tool_call_update.
OverlayToolCall(tc, update) ==
    [tool_call_id |-> tc.tool_call_id,
     title |-> IF IsSome(update.title) THEN Unwrap(update.title) ELSE tc.title,
     kind |-> IF IsSome(update.kind) THEN update.kind ELSE tc.kind,
     status |-> IF IsSome(update.status) THEN update.status ELSE tc.status,
     raw_input |-> IF IsSome(update.raw_input) THEN update.raw_input ELSE tc.raw_input,
     raw_output |-> IF IsSome(update.raw_output) THEN update.raw_output ELSE tc.raw_output,
     content |-> IF IsSome(update.content) THEN update.content ELSE tc.content,
     locations |-> IF IsSome(update.locations) THEN update.locations ELSE tc.locations]

\* Mutant of handle_tool_call_update: an update for an unknown id creates the
\* tool call instead of being dropped.
handle_tool_call_update_upsert(s, update) ==
    IF update.tool_call_id \in DOMAIN s.tool_calls_map
    THEN LET idx == s.tool_calls_map[update.tool_call_id] IN
         IF idx >= Len(s.chat_items) THEN Panic(s)
         ELSE IF IsToolCall(s.chat_items[idx + 1])
         THEN LET tool_call == OverlayToolCall(s.chat_items[idx + 1].tool_call, update)
              IN Outcome([s EXCEPT !.chat_items[idx + 1].tool_call = tool_call],
                         ToolCallUpdated(tool_call))
         ELSE Outcome(s, Noop)
    ELSE LET tool_call == OverlayToolCall(ToolCall(update.tool_call_id, "", None), update)
         IN Outcome([s EXCEPT !.chat_items = Append(@, [type |-> "tool_call", tool_call |-> tool_call]),
                              !.tool_calls_map = MapInsert(@, update.tool_call_id, Len(s.chat_items))],
                    ToolCallAdded(tool_call))

handle_tool_call_update(s, update) ==
    IF update.tool_call_id \in DOMAIN s.tool_calls_map
    THEN LET idx == s.tool_calls_map[update.tool_call_id] IN
         IF idx >= Len(s.chat_items) THEN Panic(s)
         ELSE IF IsToolCall(s.chat_items[idx + 1])
         THEN LET tool_call == OverlayToolCall(s.chat_items[idx + 1].tool_call, update)
              IN Outcome([s EXCEPT !.chat_items[idx + 1].tool_call = tool_call],
                         ToolCallUpdated(tool_call))
         ELSE Outcome(s, Noop)
    ELSE Outcome(s, Noop)

\* Mutant of handle_tool_call: the index is taken after the push.
handle_tool_call_index_after_push(s, tool_call) ==
    LET index == Len(s.chat_items) + 1
    IN Outcome([s EXCEPT !.chat_items = Append(@, [type |-> "tool_call", tool_call |-> tool_call]),
                         !.tool_calls_map = MapInsert(@, tool_call.tool_call_id, index)],
               ToolCallAdded(tool_call))

\* The ToolCall arm of apply_update.
handle_tool_call(s, tool_call) ==
    LET index == Len(s.chat_items)
    IN Outcome([s EXCEPT !.chat_items = Append(@, [type |-> "tool_call", tool_call |-> tool_call]),
                         !.tool_calls_map = MapInsert(@, tool_call.tool_call_id, index)],
               ToolCallAdded(tool_call))

\* Mutant of apply_update: a current_mode_update installs modes when absent.
apply_update_installs_modes(s0, update, now) ==
    LET s == [s0 EXCEPT !.updated_at = now] IN
    CASE update.sessionUpdate = "agent_message_chunk" ->
            handle_agent_message_chunk(s, update.content, now)
      [] update.sessionUpdate = "user_message_chunk" ->
            handle_user_message_chunk(s, update.content, now)
      [] update.sessionUpdate = "agent_thought_chunk" ->
            handle_agent_message_chunk(s, update.content, now)
      [] update.sessionUpdate = "tool_call" ->
            handle_tool_call(s, update.tool_call)
      [] update.sessionUpdate = "tool_call_update" ->
            handle_tool_call_update(s, update.tool_call_update)
      [] update.sessionUpdate = "plan" ->
            Outcome([s EXCEPT !.plan = Some(update.plan)], PlanUpdated(update.plan))
      [] update.sessionUpdate = "available_commands_update" ->
            Outcome([s EXCEPT !.available_commands = Some(update.available_commands)],
                    AvailableCommandsUpdated(update.available_commands))
      [] update.sessionUpdate = "current_mode_update" ->
            Outcome([s EXCEPT !.modes =
                        Some([current_mode_id |-> update.current_mode_id,
                              available_modes |-> <<>>])],
                    CurrentModeUpdated(update.current_mode_id))

apply_update(s0, update, now) ==
    LET s == [s0 EXCEPT !.updated_at = now] IN
    CASE update.sessionUpdate = "agent_message_chunk" ->
            handle_agent_message_chunk(s, update.content, now)
      [] update.sessionUpdate = "user_message_chunk" ->
            handle_user_message_chunk(s, update.content, now)
      [] update.sessionUpdate = "agent_thought_chunk" ->
            handle_agent_message_chunk(s, update.content, now)
      [] update.sessionUpdate = "tool_call" ->
            handle_tool_call(s, update.tool_call)
      [] update.sessionUpdate = "tool_call_update" ->
            handle_tool_call_update(s, update.tool_call_update)
      [] update.sessionUpdate = "plan" ->
            Outcome([s EXCEPT !.plan = Some(update.plan)], PlanUpdated(update.plan))
      [] update.sessionUpdate = "available_commands_update" ->
            Outcome([s EXCEPT !.available_commands = Some(update.available_commands)],
                    AvailableCommandsUpdated(update.available_commands))
      [] update.sessionUpdate = "current_mode_update" ->
            Outcome(IF IsSome(s.modes)
                       THEN [s EXCEPT !.modes =
                                Some([Unwrap(@) EXCEPT
                                         !.current_mode_id = update.current_mode_id])]
                       ELSE s,
                    CurrentModeUpdated(update.current_mode_id))

\* get_tool_call: the stored ToolCall, None, or a panic on an out-of-range index.
get_tool_call(s, tool_call_id) ==
    IF tool_call_id \in DOMAIN s.tool_calls_map
    THEN LET idx == s.tool_calls_map[tool_call_id] IN
         IF idx >= Len(s.chat_items) THEN [panic |-> TRUE, value |-> None]
         ELSE IF IsToolCall(s.chat_items[idx + 1])
         THEN [panic |-> FALSE, value |-> Some(s.chat_items[idx + 1].tool_call)]
         ELSE [panic |-> FALSE, value |-> None]
    ELSE [panic |-> FALSE, value |-> None]

\* ----------------------------------------- core/session_state_manager.rs
\* One session of the manager's states map, with its subscription entry.
ClientIds == {"c1"}

\* Chat items as load_session_chat_items hands them over: messages carry the
\* uuid of their log entry, replayed tool calls are completed.
HistMessage(k, role, content) ==
    [type |-> "message",
     message |-> [id |-> <<"hist", k>>, role |-> role, content |-> content, timestamp |-> 0]]
HistToolCall(id) ==
    [type |-> "tool_call",
     tool_call |-> [tool_call_id |-> id, title |-> "T0", kind |-> None,
                    status |-> Some("completed"), raw_input |-> Some("in"),
                    raw_output |-> None, content |-> None, locations |-> None]]
Histories ==
    { <<HistMessage(1, "assistant", <<"A">>)>>,
      <<HistMessage(1, "assistant", <<"A">>), HistMessage(2, "assistant", <<"B">>)>>,
      <<HistToolCall("t2")>>,
      <<HistMessage(1, "user", <<"A">>), HistToolCall("t1")>> }

\* send_prompt's (content, messageId?) pairs.
UserMessages == { [content |-> <<"A">>, message_id |-> None],
                  [content |-> <<"B">>, message_id |-> Some(<<"client", 1>>)] }

\* ------------------------------------------------- permission requests
MaxCalls == 2

SessionIds == {"s1", "s2"}

\* serde_json::Value, as far as a JSON-RPC id takes its shapes (RequestId).
JNull == [json |-> "null"]
JNumber(n) == [json |-> "number", n |-> n]
JString(str) == [json |-> "string", str |-> str]

Digits == <<"0", "1", "2", "3", "4", "5", "6", "7", "8", "9">>
Quote == "\""
NullText == <<"n", "u", "l", "l">>

\* serde_json::to_string of an id: the JSON text, a sequence of characters.
to_string(value) ==
    CASE value.json = "number" -> <<Digits[value.n + 1]>>
      [] value.json = "string" -> <<Quote>> \o value.str \o <<Quote>>
      [] OTHER -> NullText

\* serde_json::from_str of an id's JSON text.
from_str(text) ==
    IF Head(text) = Quote THEN JString(SubSeq(text, 2, Len(text) - 1))
    ELSE IF text = NullText THEN JNull
    ELSE JNumber((CHOOSE d \in 1..10 : Digits[d] = text[1]) - 1)

\* The ids the agent gives its session/request_permission requests.
RequestIds == {JNumber(1), JString(<<"1">>)}

PermissionOption(option_id, kind) ==
    [option_id |-> option_id, name |-> option_id, kind |-> kind]

OptionLists ==
    { <<PermissionOption("reject", "reject_once"), PermissionOption("always", "allow_always"),
        PermissionOption("allow", "allow_once")>>,
      <<PermissionOption("reject", "reject_once")>> }

PermissionRequest(request_id, session_id, tool_call, options) ==
    [request_id |-> request_id, session_id |-> session_id,
     tool_call |-> tool_call, options |-> options]

Cancelled == [outcome |-> "cancelled"]
Selected(option_id) == [outcome |-> "selected", optionId |-> option_id]

\* The tool call the agent's n-th permission request asks about.
RequestedToolCall(n) ==
    ToolCallUpdate(<<"call", n>>, Some(<<"R">>), None, Some("pending"), None, None, None, None)

\* JsonRpcResponse as written on the agent's stdin: the id as JSON text.
JsonRpcResponse(id, outcome) ==
    [jsonrpc |-> "2.0", id |-> to_string(id), result |-> [outcome |-> outcome]]

\* Mutant of respond_permission: the id is sent as a number whenever its text
\* reads as one (a numeric id type instead of the opaque JSON value).
respond_permission_numeric_id(write_tx, request_id, outcome) ==
    LET id == IF request_id.json = "string" /\ \E d \in 1..10 : request_id.str = <<Digits[d]>>
              THEN from_str(request_id.str) ELSE request_id
    IN IF write_tx = "open"
       THEN [result |-> "Ok", line |-> Some(JsonRpcResponse(id, outcome))]
       ELSE [result |-> "ChannelClosed", line |-> None]

\* AcpClient::respond_permission on a client whose write channel is write_tx
\* ("open", or "closed" once the writer task has ended).
respond_permission(write_tx, request_id, outcome) ==
    IF write_tx = "open"
    THEN [result |-> "Ok", line |-> Some(JsonRpcResponse(request_id, outcome))]
    ELSE [result |-> "ChannelClosed", line |-> None]

\* AgentManager::respond_permission on state.client (None: no agent).
manager_respond_permission(agent_client, request_id, outcome) ==
    IF IsSome(agent_client)
    THEN respond_permission(Unwrap(agent_client), request_id, outcome)
    ELSE [result |-> "NotConnected", line |-> None]

IsAllow(opt) == opt.kind \in {"allow_once", "allow_always"}

\* Mutant of FindAllowOption: the last allow option instead of the first.
FindAllowOption_last(options) ==
    LET hits == {i \in 1..Len(options) : IsAllow(options[i])}
    IN IF hits = {} THEN None
       ELSE Some(options[CHOOSE i \in hits : \A j \in hits : i >= j])

\* options.iter().find(allow_once | allow_always): the first such option.
FindAllowOption(options) ==
    LET hits == {i \in 1..Len(options) : IsAllow(options[i])}
    IN IF hits = {} THEN None
       ELSE Some(options[CHOOSE i \in hits : \A j \in hits : i <= j])

\* SessionStateManager::set_pending_permission on the map of live sessions.
set_pending_permission(pending, session_id, request) ==
    IF session_id \in DOMAIN pending
    THEN [pending EXCEPT ![session_id] = request]
    ELSE pending

\* SessionStateManager::is_dangerous_mode / set_dangerous_mode.
is_dangerous_mode(dangerous, session_id) ==
    session_id \in DOMAIN dangerous /\ dangerous[session_id]

set_dangerous_mode(dangerous, session_id, enabled) ==
    IF session_id \in DOMAIN dangerous
    THEN [dangerous EXCEPT ![session_id] = enabled]
    ELSE dangerous

\* The notifications start_event_forwarding and dispatch_method put on event_tx.
PermissionRequestNotification(request) ==
    [method |-> "permission/request",
     params |-> [requestId |-> to_string(request.request_id),
                 sessionId |-> request.session_id,
                 toolCall |-> request.tool_call,
                 options |-> request.options]]

PermissionResolvedNotification(request_id, session_id) ==
    [method |-> "permission/resolved",
     params |-> [requestId |-> to_string(request_id), sessionId |-> session_id]]

\* ------------------------------------------------- requests to the agent
MaxSends == 2
MaxLines == 2

\* serde_json::Value::as_u64 of a response id.
as_u64(value) == IF value.json = "number" THEN Some(value.n) ELSE None

\* AtomicU64::fetch_add(1): the id taken and the counter afterwards (the
\* counter wraps at 2^64, far beyond the ids reached here).
fetch_add(counter) == [id |-> counter, next |-> counter + 1]

MapRemove(m, k) == [x \in DOMAIN m \ {k} |-> m[x]]

\* Mutant of TakePending: the slot is looked up but stays registered.
TakePending_keep(pending, id) ==
    IF id \in DOMAIN pending
    THEN [sender |-> Some(pending[id]), pending |-> pending]
    ELSE [sender |-> None, pending |-> pending]

\* pending.remove(&id): the slot registered under id, if any, and the map left.
TakePending(pending, id) ==
    IF id \in DOMAIN pending
    THEN [sender |-> Some(pending[id]), pending |-> MapRemove(pending, id)]
    ELSE [sender |-> None, pending |-> pending]

\* The response lines the agent writes: the id as JSON text, and a result
\* (a value or null) or an error.
ResponseLines ==
    { [id |-> to_string(id), body |-> body] :
        id \in {JNumber(1), JNumber(2), JString(<<"1">>)},
        body \in { [result |-> "R"],
                   [error |-> [code |-> 1, message |-> "E", data |-> None]] } }
    \cup { [id |-> to_string(JNumber(1)), body |-> [result |-> "null"]] }

\* What the reader task sends into the slot for a response line.
RpcResult(line) ==
    IF "error" \in DOMAIN line.body
    THEN [err |-> "Rpc", code |-> line.body.error.code,
          message |-> line.body.error.message, data |-> line.body.error.data]
    ELSE [ok |-> line.body.result]

\* The tasks that call send_request concurrently.
Tasks == {"p1", "p2"}

\* The tasks that call into the SessionStateManager concurrently: the
\* notification-forwarding task, a client's send_prompt request task and a
\* client's subscribe_session request task.
ManagerTasks == {"forwarder", "prompt", "subscribe", "loader", "connect", "lazy1", "lazy2",
                 "respond", "disconnect"}
ManagerClients == {"c1", "c2"}

\* ------------------------------------- SessionStateManager, several sessions
\* How many calls are made on the manager.
MaxManagerCalls == 4

\* SessionSubscription of a session just created.
NewSubscription == [subscribers |-> {}, tx |-> <<>>]

has_session(sts, id) == id \in DOMAIN sts
get_state(sts, id) == IF id \in DOMAIN sts THEN Some(sts[id]) ELSE None
subscriber_count(subs, id) ==
    IF id \in DOMAIN subs THEN Cardinality(subs[id].subscribers) ELSE 0

\* Mutant of remove_session: the subscription entry is left behind.
remove_session_keep_subscription(sts, subs, id) ==
    [states |-> MapRemove(sts, id), subscriptions |-> subs]

remove_session(sts, subs, id) ==
    [states |-> MapRemove(sts, id), subscriptions |-> MapRemove(subs, id)]

\* Mutant of unsubscribe: the client is removed from every session.
unsubscribe_everywhere(subs, client_id, session_id) ==
    [id \in DOMAIN subs |-> [subs[id] EXCEPT !.subscribers = @ \ {client_id}]]

unsubscribe(subs, client_id, session_id) ==
    IF session_id \in DOMAIN subs
    THEN [subs EXCEPT ![session_id].subscribers = @ \ {client_id}]
    ELSE subs

unsubscribe_all(subs, client_id) ==
    [id \in DOMAIN subs |-> [subs[id] EXCEPT !.subscribers = @ \ {client_id}]]

\* broadcast_update(session_id, update) on the subscriptions map.
broadcast_to(subs, session_id, update) ==
    IF session_id \in DOMAIN subs /\ subs[session_id].subscribers # {}
    THEN [subs EXCEPT ![session_id].tx = Append(@, update)]
    ELSE subs

\* ------------------------------------------------- core/session_registry.rs
\* Paths are strings over a small alphabet holding the three characters the
\* conversion treats specially.
MaxPath == 3
PathChars == {"/", "_", "-", "a"}
Paths == UNION {[1..n -> PathChars] : n \in 0..MaxPath}

\* str::replace(from, to) for single characters.
replace(s, from, to) == [i \in 1..Len(s) |-> IF s[i] = from THEN to ELSE s[i]]

\* std::fs::canonicalize(cwd).ok()...unwrap_or_else(|| cwd.to_string()): the
\* file system answers with a canonical absolute path, or fails.
CanonicalPaths == {q \in Paths : Len(q) >= 1 /\ q[1] = "/"}
resolved(cwd, canonical) == IF IsSome(canonical) THEN Unwrap(canonical) ELSE cwd

cwd_to_path_key_slash_only(cwd, canonical) == replace(resolved(cwd, canonical), "/", "-")

cwd_to_path_key(cwd, canonical) ==
    replace(replace(resolved(cwd, canonical), "/", "-"), "_", "-")

path_key_to_cwd(path_key) == replace(path_key, "-", "/")

\* One conversion there and back: the cwd given, what canonicalize answers.
PathInputs == {[pc |-> "input", cwd |-> c, canonical |-> q, path_key |-> <<>>,
                back |-> <<>>] :
                  c \in Paths, q \in {None} \cup {Some(r) : r \in CanonicalPaths}}
NoPathCall == [pc |-> "none"]

\* Session ids as a prefix and a rest, so that starts_with("agent-") is
\* computed; the cwd every session was started in.
ListIds == {<<"s", "1">>, <<"s", "2">>, <<"agent-", "1">>}
starts_with(str, prefix) == str[1] = prefix
SessionCwd(id) == IF id = <<"s", "2">> THEN <<"/", "b">> ELSE <<"/", "a">>
CwdFilters == {None, Some(<<"/", "a">>), Some(<<"/", "b">>)}
\* The largest limit and the times of last activity drawn.
MaxLimit == 2
Times == {1, 2}

\* active_sessions: some of the ids, each with its cwd and last_activity.
ActiveSessionMaps ==
    UNION {[ids -> Times] : ids \in SUBSET ListIds}
\* The .jsonl files under projects_dir: the project directory is the path key
\* of the session's cwd; message_count and last_activity are what
\* parse_session_file reads from the file.
SessionFiles ==
    {[message_count |-> 0, last_activity |-> 1]} \cup
    {[message_count |-> 1, last_activity |-> t] : t \in Times}
ProjectsDirs == UNION {[ids -> SessionFiles] : ids \in SUBSET ListIds}

\* parse_session_file(path): None for a file without messages.
parse_session_file(file) == IF file.message_count = 0 THEN None ELSE Some(file)

\* Steps 1 and 2 of list_sessions: the map all_sessions, id -> SessionInfo.
all_sessions(active, files, cwd) ==
    LET listed_active == {id \in DOMAIN active :
                             cwd = None \/ SessionCwd(id) = Unwrap(cwd)}
        scanned == {id \in DOMAIN files :
                       cwd = None \/ cwd_to_path_key(SessionCwd(id), None)
                                       = cwd_to_path_key(Unwrap(cwd), None)}
        from_disk == {id \in scanned \ listed_active :
                         /\ ~starts_with(id, "agent-")
                         /\ IsSome(parse_session_file(files[id]))}
    IN  [id \in listed_active \cup from_disk |->
            IF id \in listed_active
            THEN [id |-> id, active |-> TRUE, last_activity |-> active[id],
                  message_count |->
                      IF id \in scanned /\ IsSome(parse_session_file(files[id]))
                      THEN files[id].message_count ELSE 0]
            ELSE [id |-> id, active |-> FALSE,
                  last_activity |-> files[id].last_activity,
                  message_count |-> files[id].message_count]]

\* Step 3: into_values() hands the infos over in any order and the stable
\* sort keeps that order among equal last_activity.
SortedOrders(infos) ==
    {order \in [1..Cardinality(DOMAIN infos) -> DOMAIN infos] :
        /\ \A i, j \in DOMAIN order : i # j => order[i] # order[j]
        /\ \A i, j \in DOMAIN order :
              i < j => infos[order[i]].last_activity >= infos[order[j]].last_activity}

\* Mutant of list_sessions: has_more also when the page ends exactly at the
\* last session.
list_sessions_has_more_inclusive(infos, order, limit, offset) ==
    LET total == Len(order)
        last == IF offset + limit < total THEN offset + limit ELSE total
    IN  [sessions |-> [i \in 1..(IF last > offset THEN last - offset ELSE 0) |->
                          infos[order[offset + i]]],
         has_more |-> offset + limit <= total,
         total |-> total]

\* Step 4: skip(offset).take(limit), total, has_more.
list_sessions(infos, order, limit, offset) ==
    LET total == Len(order)
        last == IF offset + limit < total THEN offset + limit ELSE total
    IN  [sessions |-> [i \in 1..(IF last > offset THEN last - offset ELSE 0) |->
                          infos[order[offset + i]]],
         has_more |-> offset + limit < total,
         total |-> total]

ListCalls == {[pc |-> "called", cwd |-> c, limit |-> l, offset |-> o, response |-> None] :
                 c \in CwdFilters, l \in 0..MaxLimit, o \in 0..MaxLimit}

\* ------------------------------------------------- core/terminal.rs
\* Uuid::new_v4() draws terminal ids from here; an id is never drawn twice.
TerminalIds == {"t1", "t2"}
WorkingDirs == {"/a", "/b"}
\* How many inputs may wait in a terminal's command channel.
MaxInputs == 2
TerminalInputs == {"Data", "Resize", "Kill"}
TerminalNotFound(id) == [err |-> "Terminal not found", id |-> id]
RunningPty == [child |-> "running", reader |-> "reading", input |-> "receiving",
               input_rx |-> <<>>, killed |-> FALSE]

\* kill_terminal(terminal_id): removes the handle, sends Kill, ignores a
\* failed send.
kill_terminal(terms, p, id) ==
    IF id \notin DOMAIN terms
    THEN [terminals |-> terms, pty |-> p,
          result |-> [call |-> "kill_terminal", err |-> TerminalNotFound(id)]]
    ELSE [terminals |-> MapRemove(terms, id),
          pty |-> [p EXCEPT ![id].killed = TRUE,
                            ![id].input_rx = IF p[id].input = "receiving"
                                             THEN Append(@, "Kill") ELSE @],
          result |-> [call |-> "kill_terminal", ok |-> id]]

\* ------------------------------------------------- server/websocket.rs frames
\* How many text frames a connection receives.
MaxFrames == 2
WsMethods == {"get_client_id", "kill_terminal", "nope"}

\* The text of a frame: not JSON at all, or a JSON object with some of the
\* members id, method and params ("jsonrpc" goes with the object).
NotJson == [valid |-> FALSE, id |-> None, method |-> None, params |-> None]
WsTexts ==
    {NotJson} \cup
    {[valid |-> TRUE, id |-> i, method |-> m, params |-> q] :
        i \in {None, Some(JNumber(1))},
        m \in {None} \cup {Some(x) : x \in WsMethods},
        q \in {None, Some([terminalId |-> JString("t1")]),
                     Some([terminalId |-> JNumber(1)])}}

\* serde_json::from_str::<JsonRpcRequest>(text): id and method are required
\* members, params is optional.
parse_request(text) ==
    IF text.valid /\ IsSome(text.id) /\ IsSome(text.method)
    THEN Some([id |-> Unwrap(text.id), method |-> Unwrap(text.method),
               params |-> text.params])
    ELSE None

\* JsonRpcResponse::success / JsonRpcResponse::error
ResponseSuccess(id, value) == [jsonrpc |-> "2.0", id |-> id, result |-> value]
ResponseError(id, code, message) ==
    [jsonrpc |-> "2.0", id |-> id, error |-> [code |-> code, message |-> message]]

\* params.get("terminalId").and_then(|v| v.as_str())
get_str(params, key) ==
    IF IsSome(params) /\ key \in DOMAIN Unwrap(params)
                      /\ Unwrap(params)[key].json = "string"
    THEN Some(Unwrap(params)[key].str) ELSE None

\* dispatch_method(method, params, state, client_state, event_tx): the result
\* and the terminal manager afterwards.
dispatch_method(method, params, terms, p) ==
    LET same(r) == [terminals |-> terms, pty |-> p, result |-> r, called |-> None]
    IN  CASE method = "get_client_id" -> same([ok |-> [clientId |-> "c1"]])
          [] method = "kill_terminal" ->
                IF get_str(params, "terminalId") = None
                THEN same([err |-> "Missing terminalId parameter"])
                ELSE LET k == kill_terminal(terms, p, Unwrap(get_str(params, "terminalId")))
                     IN  [terminals |-> k.terminals, pty |-> k.pty,
                          result |-> IF "err" \in DOMAIN k.result
                                     THEN [err |-> k.result.err] ELSE [ok |-> JNull],
                          called |-> Some(k.result)]
          [] OTHER -> same([err |-> "Unknown method"])

\* Mutant of handle_message: every failure is reported with the request's id
\* when there is one, the parse error too.
handle_message_parse_error_with_id(text, terms, p) ==
    LET request == parse_request(text)
    IN  IF request = None
        THEN [terminals |-> terms, pty |-> p, called |-> None,
              response |-> ResponseError(IF IsSome(text.id) THEN Unwrap(text.id)
                                         ELSE JNull, -32700, "Parse error")]
        ELSE LET d == dispatch_method(Unwrap(request).method, Unwrap(request).params,
                                      terms, p)
             IN  [terminals |-> d.terminals, pty |-> d.pty, called |-> d.called,
                  response |-> IF "ok" \in DOMAIN d.result
                               THEN ResponseSuccess(Unwrap(request).id, d.result.ok)
                               ELSE ResponseError(Unwrap(request).id, -32603,
                                                  d.result.err)]

\* handle_message(text, state, client_state): the response text, and the
\* terminal manager afterwards.
handle_message(text, terms, p) ==
    LET request == parse_request(text)
    IN  IF request = None
        THEN [terminals |-> terms, pty |-> p, called |-> None,
              response |-> ResponseError(JNull, -32700, "Parse error")]
        ELSE LET d == dispatch_method(Unwrap(request).method, Unwrap(request).params,
                                      terms, p)
             IN  [terminals |-> d.terminals, pty |-> d.pty, called |-> d.called,
                  response |-> IF "ok" \in DOMAIN d.result
                               THEN ResponseSuccess(Unwrap(request).id, d.result.ok)
                               ELSE ResponseError(Unwrap(request).id, -32603,
                                                  d.result.err)]

\* ------------------------------------------------- load_session_chat_items
MAX_HISTORY_ITEMS == 200
\* The longest content array drawn, and how far the number of entries before
\* it goes below and above MAX_HISTORY_ITEMS.
MaxBlocks == 3
MaxOver == 2
\* How many blocks the assistant entry of a long file has at most.
MaxLongBlocks == 2

Newline == "\n"
SYSTEM_MESSAGE_PATTERNS == {"<command-name>", "<command-message>", "<command-args>"}

\* is_system_message: the text starts with one of the patterns.
is_system_message(text) == Len(text) > 0 /\ text[1] \in SYSTEM_MESSAGE_PATTERNS

\* The blocks of an assistant entry's content array: texts (one of them
\* empty, one a system message), tool_use blocks, and a block of another type.
TextContent(text) == [type |-> "text", text |-> text]
ToolUse(id) == [type |-> "tool_use", id |-> id, name |-> "T0", input |-> "in"]
HistoryBlocks ==
    { TextContent(<<"a">>), TextContent(<<>>), TextContent(<<"<command-name>", "x">>),
      ToolUse("t1"), [type |-> "thinking"] }

SeqsUpTo(S, n) == UNION { [1..k -> S] : k \in 0..n }

\* The entries of a session file: messages of the user with string content
\* (text), assistant messages with a content array (content), the tool result
\* a user message carries, and an API error message.
UserEntry(k) ==
    [kind |-> "message", role |-> "user", uuid |-> k, timestamp |-> k,
     text |-> <<"u">>, content |-> <<>>]
AssistantEntry(k, blocks) ==
    [kind |-> "message", role |-> "assistant", uuid |-> k, timestamp |-> k,
     text |-> <<>>, content |-> blocks]
ToolResultEntry(k, tool_use_id) ==
    [kind |-> "tool_result", role |-> "user", uuid |-> k, timestamp |-> k,
     tool_use_id |-> tool_use_id, text |-> <<"out">>, content |-> <<>>]
ApiErrorEntry(k) ==
    [kind |-> "api_error", role |-> "assistant", uuid |-> k, timestamp |-> k,
     text |-> <<"e">>, content |-> <<>>]

\* The id of the message flushed from an assistant entry.
text_message_id(base_id, text_counter) ==
    IF text_counter = 0 THEN <<"hist", base_id>>
    ELSE <<"hist", base_id, "-text-", text_counter>>

\* The flush of the pending text: a completed assistant message, if any.
flush(acc, entry) ==
    IF acc.pending_text # <<>>
    THEN [acc EXCEPT
             !.chat_items = Append(@, MessageItem(
                 text_message_id(entry.uuid, acc.text_counter), "assistant",
                 acc.pending_text, entry.timestamp)),
             !.text_counter = @ + 1,
             !.pending_text = <<>>]
    ELSE acc

\* The tool call a tool_use block is replayed as.
replayed_tool_call(block) ==
    [tool_call_id |-> block.id, title |-> block.name, kind |-> None,
     status |-> Some("completed"), raw_input |-> Some(block.input),
     raw_output |-> None, content |-> None, locations |-> None]

\* Mutant of content_item: a tool_use block does not flush the pending text.
content_item_without_flush(acc, entry, block) ==
    CASE block.type = "text" ->
            IF block.text # <<>> /\ ~is_system_message(block.text)
            THEN [acc EXCEPT !.pending_text =
                     IF @ # <<>> THEN @ \o <<Newline>> \o block.text ELSE block.text]
            ELSE acc
      [] block.type = "tool_use" ->
            [acc EXCEPT
                !.pending_tool_calls =
                    MapInsert(@, block.id, replayed_tool_call(block)),
                !.chat_items = Append(@, ToolCallItem(replayed_tool_call(block)))]
      [] OTHER -> acc

\* One turn of the loop over the content array of an assistant entry.
content_item(acc, entry, block) ==
    CASE block.type = "text" ->
            IF block.text # <<>> /\ ~is_system_message(block.text)
            THEN [acc EXCEPT !.pending_text =
                     IF @ # <<>> THEN @ \o <<Newline>> \o block.text ELSE block.text]
            ELSE acc
      [] block.type = "tool_use" ->
            LET flushed == flush(acc, entry)
            IN  [flushed EXCEPT
                    !.pending_tool_calls =
                        MapInsert(@, block.id, replayed_tool_call(block)),
                    !.chat_items = Append(@, ToolCallItem(replayed_tool_call(block)))]
      [] OTHER -> acc

RECURSIVE content_items(_, _, _)
content_items(acc, entry, i) ==
    IF i > Len(entry.content) THEN acc
    ELSE content_items(content_item(acc, entry, entry.content[i]), entry, i + 1)

\* The assistant branch: the loop over the array, then the last flush.
assistant_entry(acc, entry) ==
    LET start == [chat_items |-> acc.chat_items,
                  pending_tool_calls |-> acc.pending_tool_calls,
                  pending_text |-> <<>>, text_counter |-> 0]
        done == flush(content_items(start, entry, 1), entry)
    IN  [chat_items |-> done.chat_items, pending_tool_calls |-> done.pending_tool_calls]

\* The first chat item that is a tool call with this id, 0 if there is none.
first_tool_call(items, id) ==
    LET hits == { i \in 1..Len(items) :
                    IsToolCall(items[i]) /\ items[i].tool_call.tool_call_id = id }
    IN  IF hits = {} THEN 0 ELSE CHOOSE i \in hits : \A j \in hits : i <= j

\* The user branch for a tool_result: the pending tool call gets the output
\* and replaces the first chat item of its id; no message is added.
tool_result_entry(acc, entry) ==
    IF entry.tool_use_id \in DOMAIN acc.pending_tool_calls
    THEN LET tool_call == [acc.pending_tool_calls[entry.tool_use_id] EXCEPT
                              !.raw_output = Some(entry.text),
                              !.content = Some(<<TextBlock(entry.text)>>)]
             at == first_tool_call(acc.chat_items, entry.tool_use_id)
         IN  [chat_items |-> IF at = 0 THEN acc.chat_items
                             ELSE [acc.chat_items EXCEPT ![at] = ToolCallItem(tool_call)],
              pending_tool_calls |->
                  MapInsert(acc.pending_tool_calls, entry.tool_use_id, tool_call)]
    ELSE acc

\* A regular text message.
text_entry(acc, entry) ==
    IF is_system_message(entry.text) THEN acc
    ELSE [acc EXCEPT !.chat_items =
             Append(@, MessageItem(<<"hist", entry.uuid>>, entry.role, entry.text,
                                   entry.timestamp))]

\* One turn of the loop over the lines of the file.
history_entry(acc, entry) ==
    CASE entry.kind = "api_error" -> acc
      [] entry.kind = "tool_result" -> tool_result_entry(acc, entry)
      [] entry.role = "assistant" -> assistant_entry(acc, entry)
      [] OTHER -> text_entry(acc, entry)

\* The loop over the lines first..last of the file, in order. It is evaluated
\* by halves, the first half before the second is entered, which keeps the
\* nesting of the evaluation shallow for files of hundreds of lines.
RECURSIVE history_entries(_, _, _, _)
history_entries(acc, file, first, last) ==
    IF first > last THEN acc
    ELSE IF first = last THEN history_entry(acc, file[first])
    ELSE LET mid == (first + last) \div 2
             half == history_entries(acc, file, first, mid)
         IN  IF Len(half.chat_items) >= 0
             THEN history_entries(half, file, mid + 1, last)
             ELSE acc

\* The chat items parsed from the file, before the limit is applied.
parsed_chat_items(file) ==
    history_entries([chat_items |-> <<>>, pending_tool_calls |-> EmptyMap],
                    file, 1, Len(file)).chat_items

\* Mutant of keep_most_recent: the first MAX_HISTORY_ITEMS items are kept.
keep_oldest(chat_items) ==
    IF Len(chat_items) > MAX_HISTORY_ITEMS
    THEN [i \in 1..MAX_HISTORY_ITEMS |-> chat_items[i]]
    ELSE chat_items

\* chat_items.split_off(total - MAX_HISTORY_ITEMS) when total is larger.
keep_most_recent(chat_items) ==
    IF Len(chat_items) > MAX_HISTORY_ITEMS
    THEN [i \in 1..MAX_HISTORY_ITEMS |->
             chat_items[Len(chat_items) - MAX_HISTORY_ITEMS + i]]
    ELSE chat_items

load_session_chat_items(file) == keep_most_recent(parsed_chat_items(file))

\* The session files drawn: a number of user messages around the limit, an
\* assistant entry with a content array, and possibly one more entry.
HistoryCounts ==
    {0} \cup ((MAX_HISTORY_ITEMS - MaxOver)..(MAX_HISTORY_ITEMS + MaxOver))
HistoryTails(k) == {<<>>, <<ToolResultEntry(k, "t1")>>, <<ApiErrorEntry(k)>>}
\* Files of n user messages, one assistant entry and a tail; the long files
\* carry the assistant entries of up to MaxLongBlocks blocks.
HistoryFiles(counts) ==
    UNION { { [i \in 1..n |-> UserEntry(i)] \o <<AssistantEntry(n + 1, blocks)>> \o tail :
                blocks \in SeqsUpTo(HistoryBlocks, IF n = 0 THEN MaxBlocks ELSE MaxLongBlocks),
                tail \in HistoryTails(MAX_HISTORY_ITEMS + MaxOver + 2) } :
            n \in counts }

\* ------------------------------------------------- process start-up
\* The entry points: bin/server.rs (standalone), lib.rs run_headless and
\* lib.rs run (desktop).
Modes == {"standalone", "headless", "desktop"}
\* How many items the transport puts on the AppState channels.
MaxItems == 3
ChannelKinds == {"notification", "permission"}

\* AppState::new: both receivers are in the state, nothing was sent.
NewAppState(mode) ==
    [mode |-> mode, pc |-> "new",
     rx |-> [kind \in ChannelKinds |-> "state"],
     channel |-> [kind \in ChannelKinds |-> <<>>],
     sent |-> 0, consumed |-> <<>>]

\* Option::take on the receiver the state holds: whoever takes it first owns
\* it, a later take finds None.
take_rx(app, kind, taker) ==
    IF app.rx[kind] = "state" THEN [app EXCEPT !.rx[kind] = taker] ELSE app

\* ------------------------------------------------- acp/client.rs reader task
\* A line of the agent's stdout: blank, not JSON, or the JSON value it holds.
BlankLine == [text |-> "blank"]
GarbageLine == [text |-> "garbage"]
JsonLine(value) == [text |-> "json", value |-> value]
JObject(fields) == [json |-> "object", fields |-> fields]

PermissionParamsJson == [sessionId |-> "s1", toolCall |-> "T", options |-> <<>>]
SessionNotificationJson == [sessionId |-> "s1", update |-> "U"]
ErrorJson == [code |-> 1, message |-> "E", data |-> None]

\* The JSON objects the agent may write: every member present or absent
\* (None), an id that is null or a number, a result that is null or a value.
LineObjects ==
    { JObject([jsonrpc |-> j, id |-> i, method |-> m, result |-> r, error |-> e,
               params |-> q]) :
        j \in {None, Some("2.0")},
        i \in {None, Some(JNull), Some(JNumber(1))},
        m \in {None, Some("session/request_permission"), Some("session/update"),
               Some("other")},
        r \in {None, Some(JNull), Some(JString(<<"R">>))},
        e \in {None, Some(ErrorJson)},
        q \in {None, Some(PermissionParamsJson), Some(SessionNotificationJson)} }

StdoutLines ==
    {BlankLine, GarbageLine, JsonLine(JNumber(5))}
    \cup { JsonLine(object) : object \in LineObjects }

\* line.trim().is_empty()
is_blank(line) == line.text = "blank"

\* serde_json::from_str::<serde_json::Value>(&line): None for Err.
parse_line(line) == IF line.text = "json" THEN Some(line.value) ELSE None

\* serde_json::Value::get(key): None unless the value is an object that has key.
get(msg, key) == IF msg.json = "object" THEN msg.fields[key] ELSE None

\* An Option<Value> member: an absent member and null both give None.
optional(member) == IF member = Some(JNull) THEN None ELSE member

\* serde_json::from_value::<JsonRpcResponse>(msg): None for Err.
parse_response(msg) ==
    IF IsSome(get(msg, "jsonrpc")) /\ IsSome(get(msg, "id"))
    THEN Some([id |-> Unwrap(get(msg, "id")),
               result |-> optional(get(msg, "result")),
               error |-> get(msg, "error")])
    ELSE None

\* serde_json::from_value::<JsonRpcRequest>(msg): None for Err.
parse_agent_request(msg) ==
    IF IsSome(get(msg, "jsonrpc")) /\ IsSome(get(msg, "id")) /\ IsSome(get(msg, "method"))
    THEN Some([id |-> Unwrap(get(msg, "id")),
               method |-> Unwrap(get(msg, "method")),
               params |-> optional(get(msg, "params"))])
    ELSE None

\* serde_json::from_value::<JsonRpcNotification>(msg): None for Err.
parse_notification(msg) ==
    IF IsSome(get(msg, "jsonrpc")) /\ IsSome(get(msg, "method"))
    THEN Some([method |-> Unwrap(get(msg, "method")),
               params |-> optional(get(msg, "params"))])
    ELSE None

\* serde_json::from_value::<PermissionParams>(params) succeeds.
is_permission_params(params) ==
    {"sessionId", "toolCall", "options"} \subseteq DOMAIN params

\* serde_json::from_value::<SessionNotification>(params) succeeds.
is_session_notification(params) ==
    {"sessionId", "update"} \subseteq DOMAIN params

\* What one line makes the reader do: nothing.
Skipped(pending) ==
    [pending |-> pending, complete |-> None, permission |-> None,
     notification |-> None]

\* The branch of the reader for a response.
read_response(msg, pending) ==
    LET response == parse_response(msg)
        id == IF IsSome(response) THEN as_u64(Unwrap(response).id) ELSE None
        taken == IF IsSome(id) THEN TakePending(pending, Unwrap(id))
                 ELSE [sender |-> None, pending |-> pending]
    IN  IF IsSome(taken.sender)
        THEN [pending |-> taken.pending,
              complete |-> Some(
                  [slot |-> Unwrap(taken.sender),
                   result |-> IF IsSome(Unwrap(response).error)
                              THEN [err |-> "Rpc",
                                    code |-> Unwrap(Unwrap(response).error).code,
                                    message |-> Unwrap(Unwrap(response).error).message,
                                    data |-> Unwrap(Unwrap(response).error).data]
                              ELSE [ok |-> IF IsSome(Unwrap(response).result)
                                           THEN Unwrap(Unwrap(response).result)
                                           ELSE JNull]]),
              permission |-> None, notification |-> None]
        ELSE Skipped(pending)

\* The branch of the reader for a request of the agent.
read_agent_request(msg, pending) ==
    LET request == parse_agent_request(msg)
    IN  IF /\ IsSome(request)
           /\ Unwrap(request).method = "session/request_permission"
           /\ IsSome(Unwrap(request).params)
           /\ is_permission_params(Unwrap(Unwrap(request).params))
        THEN [Skipped(pending) EXCEPT !.permission =
                 Some([request_id |-> Unwrap(request).id,
                       session_id |-> Unwrap(Unwrap(request).params).sessionId,
                       tool_call |-> Unwrap(Unwrap(request).params).toolCall,
                       options |-> Unwrap(Unwrap(request).params).options])]
        ELSE Skipped(pending)

\* The branch of the reader for a notification.
read_notification(msg, pending) ==
    LET notification == parse_notification(msg)
    IN  IF /\ IsSome(notification)
           /\ Unwrap(notification).method = "session/update"
           /\ IsSome(Unwrap(notification).params)
           /\ is_session_notification(Unwrap(Unwrap(notification).params))
        THEN [Skipped(pending) EXCEPT !.notification =
                 Some([session_id |-> Unwrap(Unwrap(notification).params).sessionId,
                       update |-> Unwrap(Unwrap(notification).params).update])]
        ELSE Skipped(pending)

\* Mutant of read_line: a line with id and method is taken for a request of
\* the agent before it is looked at as a response.
read_line_request_first(line, pending) ==
    IF is_blank(line) \/ ~IsSome(parse_line(line)) THEN Skipped(pending)
    ELSE LET msg == Unwrap(parse_line(line))
             has_id == IsSome(get(msg, "id"))
             has_method == IsSome(get(msg, "method"))
             has_result == IsSome(get(msg, "result"))
             has_error == IsSome(get(msg, "error"))
         IN  IF has_id /\ has_method THEN read_agent_request(msg, pending)
             ELSE IF has_id /\ (has_result \/ has_error)
             THEN read_response(msg, pending)
             ELSE IF has_method THEN read_notification(msg, pending)
             ELSE Skipped(pending)

\* One turn of the reader loop on a line taken from stdout.
read_line(line, pending) ==
    IF is_blank(line) \/ ~IsSome(parse_line(line)) THEN Skipped(pending)
    ELSE LET msg == Unwrap(parse_line(line))
             has_id == IsSome(get(msg, "id"))
             has_method == IsSome(get(msg, "method"))
             has_result == IsSome(get(msg, "result"))
             has_error == IsSome(get(msg, "error"))
         IN  IF has_id /\ (has_result \/ has_error) THEN read_response(msg, pending)
             ELSE IF has_id /\ has_method THEN read_agent_request(msg, pending)
             ELSE IF has_method THEN read_notification(msg, pending)
             ELSE Skipped(pending)

\* The reader task while no agent process runs, and right after connect with
\* one send_request call waiting for its response.
NoReader ==
    [running |-> FALSE, read |-> 0, last |-> None, pending |-> EmptyMap,
     slots |-> <<>>, notification_tx |-> <<>>, permission_tx |-> <<>>]
StartedReader ==
    [running |-> TRUE, read |-> 0, last |-> None,
     pending |-> MapInsert(EmptyMap, 1, 1),
     slots |-> << <<>> >>, notification_tx |-> <<>>, permission_tx |-> <<>>]

VARIABLES
    session,          \* states[id]: the SessionState
    subscribers,      \* subscriptions[id].subscribers
    forwarder_alive,  \* the notification-forwarding task has not panicked
    calls,            \* the mutating calls made on the session, in order
    last_delta,       \* the delta the last mutating call returned
    last_sent,        \* what that call handed to tx.send (None: nothing)
    agent_client,     \* AppState.client: None, or Some(state of its write channel)
    agent_requests,   \* the session/request_permission requests the agent has sent
    permission_rx,    \* the permission channel between reader and forwarding task
    pending_permission, \* SessionState.pending_permission of every live session
    global_pending_permission, \* AppState.pending_permission
    dangerous_mode,   \* SessionState.dangerous_mode of every live session
    agent_stdin,      \* the responses written to the agent, and for which request
    events,           \* what was sent on event_tx, in order
    respond_results,  \* the result of every respond_permission call of a client
    next_request_id,  \* AcpClient.request_id, the next id send_request assigns
    pending_requests, \* AcpClient.pending_requests: id -> the call's one-shot slot
    rpc_task,         \* each task's position inside send_request
    rpc_slots,        \* what was sent into each call's one-shot slot, in order
    rpc_written,      \* the request lines handed to the writer, in order
    rpc_lines,        \* the response lines the reader task has taken, in order
    rpc_returned,     \* what every finished send_request call returned
    mgr_task,         \* each task's position inside a SessionStateManager call
    session_tx,       \* what was sent on the session's broadcast channel, in order
    receivers,        \* what subscribe returned to each client: snapshot, receiver
    client_state,     \* per WebSocket client: connected, subscribed_sessions
    in_memory,        \* whether the manager holds a state for the session
    session_file,     \* the chat items of the session's history file on disk
    session2,         \* the state the manager holds under a second id, if any
    agent_spawns,     \* how many agent processes have been started
    client_lock,      \* the RwLock around AppState.client: holders and waiters
    path_call,        \* one cwd -> path_key -> cwd conversion and its results
    terminals,        \* TerminalManager.terminals: id -> TerminalInfo of the handle
    pty,              \* per terminal created: child, the two threads, input channel
    term_result,      \* what the last TerminalManager call returned
    ws_open,          \* handle_socket: the receive loop of the connection runs
    ws_received,      \* how many text frames the connection has received
    ws_tasks,         \* the spawned handle_message tasks that have not finished
    ws_tx,            \* the responses written to the WebSocket, in order
    active_sessions,  \* SessionRegistry.active_sessions: id -> last_activity
    projects_dir,     \* the session files on disk: id -> what the file holds
    list_call,        \* one list_sessions call: its arguments, its response
    states,           \* SessionStateManager.states: session id -> SessionState
    subscriptions,    \* SessionStateManager.subscriptions: id -> subscribers, tx
    sm_call,          \* the manager call between its two lock sections, if any
    sm_result,        \* the last call that returned, and what it returned
    sm_ops,           \* how many calls were made on the manager
    reader,           \* the reader task of AcpClient::connect and what it feeds
    history,          \* one load_session_chat_items call: the file, the items returned
    app,              \* the process from start-up: who owns the AppState receivers
    entry_tasks       \* create_session / remove_session calls between their two maps

chat_vars == <<session, subscribers, forwarder_alive, calls, last_delta, last_sent>>

perm_vars == <<agent_client, agent_requests, permission_rx, pending_permission,
               global_pending_permission, dangerous_mode, agent_stdin, events,
               respond_results>>

rpc_vars == <<next_request_id, pending_requests, rpc_task, rpc_slots, rpc_written,
              rpc_lines, rpc_returned>>

\* The state of the parts modelled beside the session manager.
term_vars == <<terminals, pty, term_result>>
ws_vars == <<ws_open, ws_received, ws_tasks, ws_tx>>
list_vars == <<active_sessions, projects_dir, list_call>>
sm_vars == <<states, subscriptions, sm_call, sm_result, sm_ops>>
aux_vars == <<path_call, term_vars, ws_vars, list_vars, sm_vars, reader, history, app,
              entry_tasks>>
side_vars == <<client_lock, aux_vars>>

mgr_vars == <<mgr_task, session_tx, receivers, client_state, in_memory, session_file,
              session2, agent_spawns, side_vars>>

\* What the actions of one part of the program leave alone.
not_chat_vars == <<perm_vars, rpc_vars, mgr_vars>>
not_perm_vars == <<chat_vars, rpc_vars, mgr_vars>>
not_rpc_vars == <<chat_vars, perm_vars, mgr_vars>>

vars == <<chat_vars, perm_vars, rpc_vars, mgr_vars>>

\* The session manager, the agent client and its lock: what the parts
\* modelled beside them leave alone.
core_vars == <<chat_vars, perm_vars, rpc_vars, mgr_task, session_tx, receivers,
               client_state, in_memory, session_file, session2, agent_spawns,
               client_lock>>
not_path_vars == <<core_vars, term_vars, ws_vars, list_vars, sm_vars, reader, history, app,
    entry_tasks>>
not_term_vars == <<core_vars, path_call, ws_vars, list_vars, sm_vars, reader, history, app,
    entry_tasks>>
not_ws_vars == <<core_vars, path_call, list_vars, sm_vars, reader, history, app,
    entry_tasks>>
not_list_vars == <<core_vars, path_call, term_vars, ws_vars, sm_vars, reader, history, app,
    entry_tasks>>
not_sm_vars == <<core_vars, path_call, term_vars, ws_vars, list_vars, reader, history, app,
    entry_tasks>>
not_reader_vars == <<core_vars, path_call, term_vars, ws_vars, list_vars, sm_vars, history, app,
    entry_tasks>>
not_history_vars == <<core_vars, path_call, term_vars, ws_vars, list_vars, sm_vars, reader, app,
    entry_tasks>>
not_app_vars == <<core_vars, path_call, term_vars, ws_vars, list_vars, sm_vars, reader,
                 history, entry_tasks>>
entry_frame == <<core_vars, path_call, term_vars, ws_vars, list_vars, reader, history, app>>

Now == Len(calls) + 1

\* broadcast_update: sends only while the subscriber set is non-empty.
broadcast_update(delta) == IF subscribers # {} THEN Some(delta) ELSE None

\* AppState::new and SessionState::new: no agent, nothing pending.
InitPermissions ==
    /\ agent_client = None
    /\ agent_requests = <<>>
    /\ permission_rx = <<>>
    /\ pending_permission = [s \in SessionIds |-> None]
    /\ global_pending_permission = None
    /\ dangerous_mode = [s \in SessionIds |-> FALSE]
    /\ agent_stdin = <<>>
    /\ events = <<>>
    /\ respond_results = <<>>

\* AcpClient::new: ids start at 1, nothing pending.
InitTransport ==
    /\ next_request_id = 1
    /\ pending_requests = EmptyMap
    /\ rpc_task = [t \in Tasks |-> [pc |-> "idle"]]
    /\ rpc_slots = <<>>
    /\ rpc_written = <<>>
    /\ rpc_lines = <<>>
    /\ rpc_returned = <<>>

\* SessionStateManager::create_session: a fresh channel, no call in progress.
\* tokio::sync::RwLock::new: nobody holds the lock, nobody waits for it.
FreeLock == [readers |-> {}, writer |-> None, queue |-> <<>>]

\* The parts modelled beside the session manager start with nothing in
\* progress, except the one part a specification is about, which starts with
\* its inputs drawn.
InitAux(part) ==
    /\ IF part = "path" THEN path_call \in PathInputs ELSE path_call = NoPathCall
    /\ IF part = "ws"
       THEN /\ terminals = MapInsert(EmptyMap, "t1", [id |-> "t1", working_dir |-> "/a"])
            /\ pty = MapInsert(EmptyMap, "t1", RunningPty)
       ELSE /\ terminals = EmptyMap
            /\ pty = EmptyMap
    /\ term_result = None
    /\ ws_open = TRUE
    /\ ws_received = 0
    /\ ws_tasks = {}
    /\ ws_tx = <<>>
    /\ IF part = "list"
       THEN /\ active_sessions \in ActiveSessionMaps
            /\ projects_dir \in ProjectsDirs
            /\ list_call \in ListCalls
       ELSE /\ active_sessions = EmptyMap
            /\ projects_dir = EmptyMap
            /\ list_call = NoPathCall
    /\ IF part \in {"sessions", "entries"}
       THEN \E ids \in IF part = "sessions" THEN {SessionIds} ELSE {{"s1"}} :
               /\ states = [id \in ids |-> NewSessionState(None, 0)]
               /\ subscriptions = [id \in ids |-> NewSubscription]
       ELSE /\ states = EmptyMap
            /\ subscriptions = EmptyMap
    /\ sm_call = None
    /\ sm_result = None
    /\ sm_ops = 0
    /\ reader = IF part = "reader" THEN StartedReader ELSE NoReader
    /\ IF part = "history"
       THEN \E file \in HistoryFiles(HistoryCounts) : history = [file |-> file, loaded |-> None]
       ELSE history = [file |-> <<>>, loaded |-> None]
    /\ IF part = "app"
       THEN \E mode \in Modes : app = NewAppState(mode)
       ELSE app = NewAppState("desktop")
    /\ entry_tasks = [t \in {"e1", "e2"} |-> [pc |-> "idle"]]

InitSide ==
    /\ client_lock = FreeLock
    /\ InitAux("none")

InitManagerFields ==
    /\ mgr_task = [t \in ManagerTasks |-> [pc |-> "idle"]]
    /\ session_tx = <<>>
    /\ receivers = EmptyMap
    /\ client_state = [c \in ManagerClients |->
                          [connected |-> TRUE, subscribed_sessions |-> {}]]
    /\ in_memory = TRUE
    /\ session_file = <<>>
    /\ session2 = None
    /\ agent_spawns = 0

InitManager ==
    /\ InitManagerFields
    /\ InitSide

\* A gateway with one fresh session, no agent and no request in progress.
InitCore ==
    /\ session = NewSessionState(None, 0)
    /\ subscribers = {}
    /\ forwarder_alive = TRUE
    /\ calls = <<>>
    /\ last_delta = Noop
    /\ last_sent = None
    /\ InitPermissions
    /\ InitTransport
    /\ InitManagerFields
    /\ client_lock = FreeLock

\* create_session(id, cwd, modes, models)
Init ==
    /\ InitPermissions
    /\ InitTransport
    /\ InitManager
    /\ \E modes \in {None, Some([current_mode_id |-> "M1",
                                 available_modes |-> <<"M1", "M2">>])} :
           session = NewSessionState(modes, 0)
    /\ subscribers = {}
    /\ forwarder_alive = TRUE
    /\ calls = <<>>
    /\ last_delta = Noop
    /\ last_sent = None

\* SessionStateManager::apply_update, called by the forwarding task of
\* start_event_forwarding for every session/update notification.
ApplyUpdate(update) ==
    /\ forwarder_alive
    /\ Len(calls) < MaxOps
    /\ LET r == apply_update(session, update, Now) IN
         /\ session' = r.state
         /\ forwarder_alive' = ~r.panic
         /\ last_delta' = r.delta
         /\ last_sent' = IF ~r.panic /\ r.delta.updateType # "noop"
                            THEN broadcast_update(r.delta) ELSE None
    /\ calls' = Append(calls, [call |-> "apply_update", update |-> update])
    /\ UNCHANGED <<subscribers, not_chat_vars>>

\* SessionStateManager::add_user_message, called by send_prompt_handler.
AddUserMessage(content, message_id) ==
    /\ Len(calls) < MaxOps
    /\ LET r == add_user_message(session, content, message_id, Now) IN
         /\ session' = r.state
         /\ last_delta' = r.delta
         /\ last_sent' = broadcast_update(r.delta)
    /\ calls' = Append(calls, [call |-> "add_user_message", content |-> content,
                                message_id |-> message_id])
    /\ UNCHANGED <<subscribers, forwarder_alive, not_chat_vars>>

\* SessionStateManager::load_history, called by the background task of a cold
\* subscribe once the JSONL file is parsed (only with a non-empty history).
LoadHistory(items) ==
    /\ Len(calls) < MaxOps
    /\ session' = load_history(session, items, Now)
    /\ last_delta' = Noop
    /\ last_sent' = None
    /\ calls' = Append(calls, [call |-> "load_history", items |-> items])
    /\ UNCHANGED <<subscribers, forwarder_alive, not_chat_vars>>

\* create_session_with_history: load_history on the state just constructed.
CreateSessionWithHistory(items) ==
    /\ calls = <<>>
    /\ session' = load_history(session, items, Now)
    /\ last_delta' = Noop
    /\ last_sent' = None
    /\ calls' = Append(calls, [call |-> "load_history", items |-> items])
    /\ subscribers' = {}
    /\ UNCHANGED <<forwarder_alive, not_chat_vars>>

Subscribe(client_id) ==
    /\ subscribers' = subscribers \cup {client_id}
    /\ UNCHANGED <<session, forwarder_alive, calls, last_delta, last_sent, not_chat_vars>>

Unsubscribe(client_id) ==
    /\ subscribers' = subscribers \ {client_id}
    /\ UNCHANGED <<session, forwarder_alive, calls, last_delta, last_sent, not_chat_vars>>

Next ==
    \/ \E update \in SessionUpdate : ApplyUpdate(update)
    \/ \E m \in UserMessages : AddUserMessage(m.content, m.message_id)
    \/ \E items \in Histories : LoadHistory(items)
    \/ \E items \in Histories \cup {<<>>} : CreateSessionWithHistory(items)
    \/ \E client_id \in ClientIds : Subscribe(client_id)
    \/ \E client_id \in ClientIds : Unsubscribe(client_id)

Spec == Init /\ [][Next]_vars

\* ------------------------------------------------- permission routing
\* The reader task of AcpClient::connect on a session/request_permission line
\* the agent wrote with JSON-RPC id `id`.
AgentRequestPermission(id, session_id, options) ==
    /\ IsSome(agent_client)
    /\ \A i \in 1..Len(agent_requests) : agent_requests[i].id # id
    /\ LET n == Len(agent_requests) + 1
           tool_call == RequestedToolCall(n)
           request == PermissionRequest(from_str(to_string(id)), session_id,
                                        tool_call, options)
       IN /\ agent_requests' = Append(agent_requests,
                 [id |-> id, session_id |-> session_id,
                  tool_call_id |-> tool_call.tool_call_id])
          /\ permission_rx' = Append(permission_rx, request)
    /\ UNCHANGED <<not_perm_vars, agent_client, pending_permission,
                   global_pending_permission, dangerous_mode, agent_stdin,
                   events, respond_results>>

\* The calls clients have made on dispatch_method so far.
ClientCalls ==
    Len(respond_results)
    + Len(SelectSeq(events, LAMBDA e : e.method = "session/state_update"))

\* One iteration of the permission task of start_event_forwarding.
ForwardPermission ==
    /\ permission_rx # <<>>
    /\ LET request == Head(permission_rx)
           allow_option == IF is_dangerous_mode(dangerous_mode, request.session_id)
                           THEN FindAllowOption(request.options) ELSE None
       IN IF IsSome(allow_option)
          THEN LET r == manager_respond_permission(agent_client, request.request_id,
                            Selected(Unwrap(allow_option).option_id))
               IN /\ agent_stdin' =
                        IF IsSome(agent_client) /\ IsSome(r.line)
                        THEN Append(agent_stdin,
                                 [line |-> Unwrap(r.line), by |-> "auto",
                                  tool_call_id |-> request.tool_call.tool_call_id])
                        ELSE agent_stdin
                  /\ UNCHANGED <<pending_permission, global_pending_permission, events>>
          ELSE /\ pending_permission' =
                     set_pending_permission(pending_permission, request.session_id,
                                            Some(request))
               /\ global_pending_permission' = Some(request)
               /\ events' = Append(events, PermissionRequestNotification(request))
               /\ UNCHANGED agent_stdin
    /\ permission_rx' = Tail(permission_rx)
    /\ UNCHANGED <<not_perm_vars, agent_client, agent_requests, dangerous_mode,
                   respond_results>>

\* dispatch_method "respond_permission": a client answers the permission/request
\* notification events[k], echoing its requestId, with or without sessionId.
RespondPermission(k, with_session_id, outcome) ==
    /\ ClientCalls < MaxCalls
    /\ events[k].method = "permission/request"
    /\ LET asked == events[k].params
           params == [requestId |-> to_string(from_str(asked.requestId)),
                      sessionId |-> IF with_session_id THEN Some(asked.sessionId) ELSE None,
                      outcome |-> outcome]
           request_id == from_str(params.requestId)
           session_id == params.sessionId
           r == manager_respond_permission(agent_client, request_id, params.outcome)
       IN /\ pending_permission' =
                IF IsSome(session_id)
                THEN set_pending_permission(pending_permission, Unwrap(session_id), None)
                ELSE pending_permission
          /\ global_pending_permission' = None
          /\ agent_stdin' =
                IF IsSome(r.line)
                THEN Append(agent_stdin,
                         [line |-> Unwrap(r.line), by |-> "client",
                          tool_call_id |-> asked.toolCall.tool_call_id])
                ELSE agent_stdin
          /\ events' =
                IF r.result = "Ok"
                THEN Append(events, PermissionResolvedNotification(request_id, session_id))
                ELSE events
          /\ respond_results' = Append(respond_results, r.result)
    /\ UNCHANGED <<not_perm_vars, agent_client, agent_requests, permission_rx,
                   dangerous_mode>>

DangerousModeUpdated(session_id, enabled) ==
    [method |-> "session/state_update",
     params |-> [sessionId |-> session_id,
                 update |-> [updateType |-> "dangerous_mode_updated",
                             dangerousMode |-> enabled]]]


\* dispatch_method "set_dangerous_mode".
SetDangerousMode(session_id, enabled) ==
    /\ ClientCalls < MaxCalls
    /\ ~is_dangerous_mode(dangerous_mode, session_id) = enabled
    /\ dangerous_mode' = set_dangerous_mode(dangerous_mode, session_id, enabled)
    /\ events' = IF session_id \in DOMAIN dangerous_mode
                 THEN Append(events, DangerousModeUpdated(session_id, enabled))
                 ELSE events
    /\ UNCHANGED <<not_perm_vars, agent_client, agent_requests, permission_rx,
                   pending_permission, global_pending_permission, agent_stdin,
                   respond_results>>

\* AgentManager::connect: a fresh client with an open write channel.
ConnectAgent ==
    /\ agent_client # Some("open")
    /\ agent_client' = Some("open")
    /\ UNCHANGED <<not_perm_vars, agent_requests, permission_rx, pending_permission,
                   global_pending_permission, dangerous_mode, agent_stdin, events,
                   respond_results>>

\* AgentManager::disconnect: takes the client out of the state.
DisconnectAgent ==
    /\ IsSome(agent_client)
    /\ agent_client' = None
    /\ UNCHANGED <<not_perm_vars, agent_requests, permission_rx, pending_permission,
                   global_pending_permission, dangerous_mode, agent_stdin, events,
                   respond_results>>

\* The writer task ends on a failed write to the agent's stdin.
WriterExit ==
    /\ agent_client = Some("open")
    /\ agent_client' = Some("closed")
    /\ UNCHANGED <<not_perm_vars, agent_requests, permission_rx, pending_permission,
                   global_pending_permission, dangerous_mode, agent_stdin, events,
                   respond_results>>

PermInit ==
    /\ session = NewSessionState(None, 0)
    /\ subscribers = {}
    /\ forwarder_alive = TRUE
    /\ calls = <<>>
    /\ last_delta = Noop
    /\ last_sent = None
    /\ InitPermissions
    /\ InitTransport
    /\ InitManager

Outcomes(options) ==
    {Cancelled} \cup {Selected(options[i].option_id) : i \in 1..Len(options)}

PermNext ==
    \/ \E id \in RequestIds, session_id \in SessionIds, options \in OptionLists :
           AgentRequestPermission(id, session_id, options)
    \/ ForwardPermission
    \/ \E k \in 1..Len(events), with_session_id \in BOOLEAN :
           \E outcome \in IF events[k].method = "permission/request"
                          THEN Outcomes(events[k].params.options) ELSE {} :
               RespondPermission(k, with_session_id, outcome)
    \/ \E session_id \in SessionIds, enabled \in BOOLEAN :
           SetDangerousMode(session_id, enabled)
    \/ ConnectAgent
    \/ DisconnectAgent
    \/ WriterExit

PermSpec == PermInit /\ [][PermNext]_vars

\* ------------------------------------------------- AcpClient::send_request
\* send_request, first step: the call takes its id from the counter.
SendRequestAssign(t) ==
    /\ rpc_task[t].pc = "idle"
    /\ next_request_id <= MaxSends
    /\ LET f == fetch_add(next_request_id)
       IN /\ next_request_id' = f.next
          /\ rpc_task' = [rpc_task EXCEPT ![t] = [pc |-> "assigned", id |-> f.id]]
    /\ UNCHANGED <<not_rpc_vars, pending_requests, rpc_slots, rpc_written,
                   rpc_lines, rpc_returned>>

\* send_request: the one-shot slot is created and registered under the id.
SendRequestRegister(t) ==
    /\ rpc_task[t].pc = "assigned"
    /\ LET slot == Len(rpc_slots) + 1
       IN /\ rpc_slots' = Append(rpc_slots, [id |-> rpc_task[t].id, sent |-> <<>>])
          /\ pending_requests' = MapInsert(pending_requests, rpc_task[t].id, slot)
          /\ rpc_task' = [rpc_task EXCEPT ![t] = [pc |-> "registered",
                                                  id |-> rpc_task[t].id, slot |-> slot]]
    /\ UNCHANGED <<not_rpc_vars, next_request_id, rpc_written, rpc_lines, rpc_returned>>

\* send_request: the envelope is handed to the writer, or the write channel
\* is closed and the call returns ChannelClosed (its slot stays registered).
SendRequestWrite(t, channel_open) ==
    /\ rpc_task[t].pc = "registered"
    /\ IF channel_open
       THEN /\ rpc_written' = Append(rpc_written, to_string(JNumber(rpc_task[t].id)))
            /\ rpc_task' = [rpc_task EXCEPT ![t].pc = "waiting"]
            /\ UNCHANGED rpc_returned
       ELSE /\ rpc_returned' = Append(rpc_returned,
                   [task |-> t, id |-> rpc_task[t].id, slot |-> rpc_task[t].slot,
                    result |-> [err |-> "ChannelClosed"]])
            /\ rpc_task' = [rpc_task EXCEPT ![t] = [pc |-> "idle"]]
            /\ UNCHANGED rpc_written
    /\ UNCHANGED <<not_rpc_vars, next_request_id, pending_requests, rpc_slots, rpc_lines>>

\* send_request: the awaited slot has a value and the call returns it.
SendRequestReturn(t) ==
    /\ rpc_task[t].pc = "waiting"
    /\ rpc_slots[rpc_task[t].slot].sent # <<>>
    /\ rpc_returned' = Append(rpc_returned,
           [task |-> t, id |-> rpc_task[t].id, slot |-> rpc_task[t].slot,
            result |-> rpc_slots[rpc_task[t].slot].sent[1].result,
            line |-> rpc_slots[rpc_task[t].slot].sent[1].line])
    /\ rpc_task' = [rpc_task EXCEPT ![t] = [pc |-> "idle"]]
    /\ UNCHANGED <<not_rpc_vars, next_request_id, pending_requests, rpc_slots,
                   rpc_written, rpc_lines>>

\* Mutant of SendRequestTimeout: the call that times out takes its slot out of
\* the map.
SendRequestTimeout_removes(t) ==
    /\ rpc_task[t].pc = "waiting"
    /\ rpc_slots[rpc_task[t].slot].sent = <<>>
    /\ rpc_returned' = Append(rpc_returned,
           [task |-> t, id |-> rpc_task[t].id, slot |-> rpc_task[t].slot,
            result |-> [err |-> "Timeout"]])
    /\ rpc_task' = [rpc_task EXCEPT ![t] = [pc |-> "idle"]]
    /\ pending_requests' = MapRemove(pending_requests, rpc_task[t].id)
    /\ UNCHANGED <<not_rpc_vars, next_request_id, rpc_slots, rpc_written, rpc_lines>>

\* send_request: the 300 s timeout fires first and the call returns Timeout.
SendRequestTimeout(t) ==
    /\ rpc_task[t].pc = "waiting"
    /\ rpc_slots[rpc_task[t].slot].sent = <<>>
    /\ rpc_returned' = Append(rpc_returned,
           [task |-> t, id |-> rpc_task[t].id, slot |-> rpc_task[t].slot,
            result |-> [err |-> "Timeout"]])
    /\ rpc_task' = [rpc_task EXCEPT ![t] = [pc |-> "idle"]]
    /\ UNCHANGED <<not_rpc_vars, next_request_id, pending_requests, rpc_slots,
                   rpc_written, rpc_lines>>

\* The reader task of AcpClient::connect on a response line of the agent.
ReadResponse(line) ==
    /\ Len(rpc_lines) < MaxLines
    /\ rpc_lines' = Append(rpc_lines, line)
    /\ LET id == as_u64(from_str(line.id))
           taken == IF IsSome(id) THEN TakePending(pending_requests, Unwrap(id))
                    ELSE [sender |-> None, pending |-> pending_requests]
       IN /\ pending_requests' = taken.pending
          /\ rpc_slots' =
                IF IsSome(taken.sender)
                THEN [rpc_slots EXCEPT ![Unwrap(taken.sender)].sent =
                          Append(@, [result |-> RpcResult(line), line |-> Len(rpc_lines) + 1])]
                ELSE rpc_slots
    /\ UNCHANGED <<not_rpc_vars, next_request_id, rpc_task, rpc_written, rpc_returned>>

RpcInit ==
    /\ session = NewSessionState(None, 0)
    /\ subscribers = {}
    /\ forwarder_alive = TRUE
    /\ calls = <<>>
    /\ last_delta = Noop
    /\ last_sent = None
    /\ InitPermissions
    /\ InitTransport
    /\ InitManager

RpcNext ==
    \/ \E t \in Tasks : SendRequestAssign(t)
    \/ \E t \in Tasks : SendRequestRegister(t)
    \/ \E t \in Tasks, channel_open \in BOOLEAN : SendRequestWrite(t, channel_open)
    \/ \E t \in Tasks : SendRequestReturn(t)
    \/ \E t \in Tasks : SendRequestTimeout(t)
    \/ \E line \in ResponseLines : ReadResponse(line)

RpcSpec == RpcInit /\ [][RpcNext]_vars

\* ------------------------------------------------- concurrent manager calls
\* The updates the agent sends in this part: a text chunk, a tool call, and
\* an update of a tool call it never announced (folds to Noop).
ManagerUpdates ==
    { [sessionUpdate |-> "agent_message_chunk", content |-> TextBlock(<<"A">>)],
      [sessionUpdate |-> "tool_call", tool_call |-> ToolCall("t1", "T0", Some("pending"))],
      [sessionUpdate |-> "tool_call_update",
       tool_call_update |-> ToolCallUpdate("t2", None, None, Some("completed"), None,
                                           Some("42"), None, None)] }

\* The prompt a client sends in this part.
ManagerPrompts == { [content |-> <<"B">>, message_id |-> Some(<<"client", 1>>)] }

SessionUpdateNotification(update) ==
    [method |-> "session/update", params |-> [sessionId |-> "s1", update |-> update]]

MessageAddedNotification(message) ==
    [method |-> "session/state_update",
     params |-> [sessionId |-> "s1",
                 update |-> [updateType |-> "message_added", message |-> message]]]

\* The variables the manager calls below never touch.
mgr_frame == <<forwarder_alive, agent_client, agent_requests, permission_rx,
               pending_permission, global_pending_permission, dangerous_mode,
               agent_stdin, respond_results, rpc_vars, client_state, in_memory,
               session_file, session2, agent_spawns, side_vars>>

\* broadcast_update: tx.send(delta) while the subscriber set is non-empty.
SendOnSessionChannel(t) ==
    IF subscribers # {}
    THEN Append(session_tx, [delta |-> mgr_task[t].delta, fold |-> mgr_task[t].fold])
    ELSE session_tx

\* SessionStateManager::apply_update, first block: the fold under the write
\* lock of states (the notification task's call).
FoldUpdate(update) ==
    /\ mgr_task["forwarder"].pc = "idle"
    /\ in_memory
    /\ Len(calls) < MaxOps
    /\ LET r == apply_update(session, update, Now)
       IN /\ session' = r.state
          /\ last_delta' = r.delta
          /\ mgr_task' = [mgr_task EXCEPT !["forwarder"] =
                 [pc |-> "folded", delta |-> r.delta, fold |-> Len(calls) + 1,
                  update |-> update]]
    /\ calls' = Append(calls, [call |-> "apply_update", update |-> update])
    /\ UNCHANGED <<subscribers, last_sent, session_tx, receivers, events, mgr_frame>>

\* apply_update, after the lock is released: broadcast_update unless Noop;
\* then the notification task forwards the raw session/update on event_tx.
ForwardUpdate ==
    /\ mgr_task["forwarder"].pc = "folded"
    /\ LET sends == mgr_task["forwarder"].delta.updateType # "noop"
       IN /\ session_tx' = IF sends THEN SendOnSessionChannel("forwarder") ELSE session_tx
          /\ last_sent' = IF sends /\ subscribers # {}
                          THEN Some(mgr_task["forwarder"].delta) ELSE None
    /\ events' = Append(events, SessionUpdateNotification(mgr_task["forwarder"].update))
    /\ mgr_task' = [mgr_task EXCEPT !["forwarder"] = [pc |-> "idle"]]
    /\ UNCHANGED <<session, subscribers, calls, last_delta, receivers, mgr_frame>>

\* SessionStateManager::add_user_message, first block: the fold under the
\* write lock of states (send_prompt_handler's call).
FoldUserMessage(content, message_id) ==
    /\ mgr_task["prompt"].pc = "idle"
    /\ in_memory
    /\ Len(calls) < MaxOps
    /\ LET r == add_user_message(session, content, message_id, Now)
       IN /\ session' = r.state
          /\ last_delta' = r.delta
          /\ mgr_task' = [mgr_task EXCEPT !["prompt"] =
                 [pc |-> "folded", delta |-> r.delta, fold |-> Len(calls) + 1]]
    /\ calls' = Append(calls, [call |-> "add_user_message", content |-> content,
                                message_id |-> message_id])
    /\ UNCHANGED <<subscribers, last_sent, session_tx, receivers, events, mgr_frame>>

\* add_user_message, after the lock is released: broadcast_update.
BroadcastUserMessage ==
    /\ mgr_task["prompt"].pc = "folded"
    /\ session_tx' = SendOnSessionChannel("prompt")
    /\ last_sent' = IF subscribers # {} THEN Some(mgr_task["prompt"].delta) ELSE None
    /\ mgr_task' = [mgr_task EXCEPT !["prompt"].pc = "broadcast"]
    /\ UNCHANGED <<session, subscribers, calls, last_delta, receivers, events, mgr_frame>>

\* send_prompt_handler after add_user_message: get_state, and the last chat
\* item goes out on event_tx as message_added.
PublishUserMessage ==
    /\ mgr_task["prompt"].pc = "broadcast"
    /\ events' =
          IF Len(session.chat_items) > 0
          THEN Append(events, MessageAddedNotification(
                   IF IsMessage(Last(session.chat_items))
                   THEN Some(Last(session.chat_items).message) ELSE None))
          ELSE events
    /\ mgr_task' = [mgr_task EXCEPT !["prompt"] = [pc |-> "idle"]]
    /\ UNCHANGED <<session, subscribers, calls, last_delta, last_sent, session_tx,
                   receivers, mgr_frame>>

\* handle_socket's read loop: a subscribe_session message of a connected
\* client is handed to a task of its own.
HandleSubscribeMessage(client_id) ==
    /\ mgr_task["subscribe"].pc = "idle"
    /\ client_state[client_id].connected
    /\ client_id \notin DOMAIN receivers
    /\ mgr_task' = [mgr_task EXCEPT !["subscribe"] =
           [pc |-> "spawned", client_id |-> client_id]]
    /\ UNCHANGED <<chat_vars, session_tx, receivers, events, mgr_frame>>

\* SessionStateManager::subscribe, first block: the state cloned under the
\* read lock of states.
SubscribeSnapshot ==
    /\ mgr_task["subscribe"].pc = "spawned"
    /\ in_memory
    /\ mgr_task' = [mgr_task EXCEPT !["subscribe"] =
           [pc |-> "snapshot", client_id |-> mgr_task["subscribe"].client_id,
            state |-> session, folded |-> Len(calls)]]
    /\ UNCHANGED <<chat_vars, session_tx, receivers, events, mgr_frame>>

\* subscribe, second block: under the write lock of subscriptions the client
\* joins the subscriber set and a receiver is created at the channel's tail.
SubscribeRegister ==
    /\ mgr_task["subscribe"].pc = "snapshot"
    /\ subscribers' = subscribers \cup {mgr_task["subscribe"].client_id}
    /\ receivers' = MapInsert(receivers, mgr_task["subscribe"].client_id,
           [snapshot |-> mgr_task["subscribe"].state,
            folded |-> mgr_task["subscribe"].folded,
            cursor |-> Len(session_tx), dropped |-> FALSE, cold |-> FALSE])
    /\ mgr_task' = [mgr_task EXCEPT !["subscribe"].pc = "subscribed"]
    /\ UNCHANGED <<session, forwarder_alive, calls, last_delta, last_sent, session_tx,
                   events, agent_client, agent_requests, permission_rx,
                   pending_permission, global_pending_permission, dangerous_mode,
                   agent_stdin, respond_results, rpc_vars, client_state, in_memory,
                   session_file, session2, agent_spawns, side_vars>>

\* subscribe_session_handler on Some((session_state, _rx)): the snapshot is
\* tracked in the client's subscribed_sessions, the snapshot is returned and
\* the receiver is dropped.
SubscribeReturn ==
    /\ mgr_task["subscribe"].pc = "subscribed"
    /\ client_state' = [client_state EXCEPT
           ![mgr_task["subscribe"].client_id].subscribed_sessions = @ \cup {"s1"}]
    /\ receivers' = [receivers EXCEPT ![mgr_task["subscribe"].client_id].dropped = TRUE]
    /\ mgr_task' = [mgr_task EXCEPT !["subscribe"] = [pc |-> "idle"]]
    /\ UNCHANGED <<chat_vars, session_tx, events, forwarder_alive, agent_client,
                   agent_requests, permission_rx, pending_permission,
                   global_pending_permission, dangerous_mode, agent_stdin,
                   respond_results, rpc_vars, in_memory, session_file, session2,
                   agent_spawns, side_vars>>

MgrInit ==
    /\ session = NewSessionState(None, 0)
    /\ subscribers = {}
    /\ forwarder_alive = TRUE
    /\ calls = <<>>
    /\ last_delta = Noop
    /\ last_sent = None
    /\ InitPermissions
    /\ InitTransport
    /\ InitManager

MgrNext ==
    \/ \E update \in ManagerUpdates : FoldUpdate(update)
    \/ ForwardUpdate
    \/ \E m \in ManagerPrompts : FoldUserMessage(m.content, m.message_id)
    \/ BroadcastUserMessage
    \/ PublishUserMessage
    \/ \E client_id \in ManagerClients : HandleSubscribeMessage(client_id)
    \/ SubscribeSnapshot
    \/ SubscribeRegister
    \/ SubscribeReturn

MgrSpec == MgrInit /\ [][MgrNext]_vars

\* ------------------------------------------------- client connections
\* unsubscribe_session_handler: SessionStateManager::unsubscribe, then the
\* session leaves the client's subscribed_sessions.
HandleUnsubscribeMessage(client_id) ==
    /\ client_state[client_id].connected
    /\ "s1" \in client_state[client_id].subscribed_sessions
    /\ subscribers' = subscribers \ {client_id}
    /\ client_state' = [client_state EXCEPT ![client_id].subscribed_sessions = @ \ {"s1"}]
    /\ receivers' = MapRemove(receivers, client_id)
    /\ UNCHANGED <<session, forwarder_alive, calls, last_delta, last_sent, mgr_task,
                   session_tx, perm_vars, rpc_vars, in_memory, session_file, session2,
                   agent_spawns, side_vars>>

\* handle_socket after the read loop ended (Close, or a socket error): every
\* session in subscribed_sessions is unsubscribed.  Request tasks spawned by
\* the read loop are neither awaited nor aborted.
Disconnect(client_id) ==
    /\ client_state[client_id].connected
    /\ client_state' = [client_state EXCEPT ![client_id].connected = FALSE]
    /\ subscribers' = IF "s1" \in client_state[client_id].subscribed_sessions
                      THEN subscribers \ {client_id} ELSE subscribers
    /\ UNCHANGED <<session, forwarder_alive, calls, last_delta, last_sent, mgr_task,
                   session_tx, receivers, perm_vars, rpc_vars, in_memory, session_file,
                   session2, agent_spawns, side_vars>>

ConnNext ==
    \/ \E client_id \in ManagerClients : HandleSubscribeMessage(client_id)
    \/ SubscribeSnapshot
    \/ SubscribeRegister
    \/ SubscribeReturn
    \/ \E client_id \in ManagerClients : HandleUnsubscribeMessage(client_id)
    \/ \E client_id \in ManagerClients : Disconnect(client_id)
    \/ \E update \in ManagerUpdates : FoldUpdate(update)
    \/ ForwardUpdate

ConnSpec == MgrInit /\ [][ConnNext]_vars

\* ------------------------------------------------- cold subscribe
FullStateNotification(state) ==
    [method |-> "session/state_update",
     params |-> [sessionId |-> "s1",
                 update |-> [updateType |-> "full_state", state |-> state]]]

\* The variables the cold path's steps never touch.
cold_frame == <<forwarder_alive, calls, last_delta, last_sent, session_tx,
                agent_client, agent_requests, permission_rx, pending_permission,
                global_pending_permission, dangerous_mode, agent_stdin,
                respond_results, rpc_vars, session_file, session2, agent_spawns, side_vars>>

\* subscribe_session_handler, session not in memory: subscribe returns None,
\* the session is found on disk, the agent is connected and resumes the
\* session; any of these may fail and the handler returns the error.
ResumeSession(resumed) ==
    /\ mgr_task["subscribe"].pc = "spawned"
    /\ ~in_memory
    /\ mgr_task' = [mgr_task EXCEPT !["subscribe"] =
           IF resumed THEN [pc |-> "resumed", client_id |-> mgr_task["subscribe"].client_id]
           ELSE [pc |-> "idle"]]
    /\ UNCHANGED <<session, subscribers, receivers, events, client_state, in_memory,
                   cold_frame>>

\* create_session: an empty state and a fresh subscription are inserted.
ColdCreateSession ==
    /\ mgr_task["subscribe"].pc = "resumed"
    /\ session' = NewSessionState(None, Now)
    /\ in_memory' = TRUE
    /\ subscribers' = {}
    /\ mgr_task' = [mgr_task EXCEPT !["subscribe"] =
           [pc |-> "created", client_id |-> mgr_task["subscribe"].client_id,
            initial_state |-> session']]
    /\ UNCHANGED <<receivers, events, client_state, cold_frame>>

\* The rest of the cold path: subscribe, track the subscription, spawn the
\* background task, return the state create_session handed back.
ColdSubscribeReturn ==
    /\ mgr_task["subscribe"].pc = "created"
    /\ subscribers' = subscribers \cup {mgr_task["subscribe"].client_id}
    /\ client_state' = [client_state EXCEPT
           ![mgr_task["subscribe"].client_id].subscribed_sessions = @ \cup {"s1"}]
    /\ receivers' = MapInsert(receivers, mgr_task["subscribe"].client_id,
           [snapshot |-> mgr_task["subscribe"].initial_state, folded |-> 0,
            cursor |-> Len(session_tx), dropped |-> TRUE, cold |-> TRUE])
    /\ mgr_task' = [mgr_task EXCEPT !["subscribe"] = [pc |-> "idle"],
                                    !["loader"] = [pc |-> "spawned"]]
    /\ UNCHANGED <<session, events, in_memory, cold_frame>>

\* The background task: load_chat_items, return if there are none, else
\* SessionStateManager::load_history.
LoaderLoad ==
    /\ mgr_task["loader"].pc = "spawned"
    /\ IF session_file = <<>>
       THEN /\ mgr_task' = [mgr_task EXCEPT !["loader"] = [pc |-> "idle"]]
            /\ UNCHANGED session
       ELSE /\ session' = IF in_memory THEN load_history(session, session_file, Now)
                          ELSE session
            /\ mgr_task' = [mgr_task EXCEPT !["loader"] = [pc |-> "loaded"]]
    /\ UNCHANGED <<subscribers, receivers, events, client_state, in_memory, cold_frame>>

\* Mutant of LoaderBroadcast: sends the state as create_session built it.
LoaderBroadcast_initial_state ==
    /\ mgr_task["loader"].pc = "loaded"
    /\ events' = Append(events, FullStateNotification(NewSessionState(None, Now)))
    /\ mgr_task' = [mgr_task EXCEPT !["loader"] = [pc |-> "idle"]]
    /\ UNCHANGED <<session, subscribers, receivers, client_state, in_memory, cold_frame>>

\* The background task: get_state, and the state goes out on event_tx as
\* full_state.
LoaderBroadcast ==
    /\ mgr_task["loader"].pc = "loaded"
    /\ events' = IF in_memory THEN Append(events, FullStateNotification(session))
                 ELSE events
    /\ mgr_task' = [mgr_task EXCEPT !["loader"] = [pc |-> "idle"]]
    /\ UNCHANGED <<session, subscribers, receivers, client_state, in_memory, cold_frame>>

ColdInit ==
    /\ session = NewSessionState(None, 0)
    /\ subscribers = {}
    /\ forwarder_alive = TRUE
    /\ calls = <<>>
    /\ last_delta = Noop
    /\ last_sent = None
    /\ InitPermissions
    /\ InitTransport
    /\ mgr_task = [t \in ManagerTasks |-> [pc |-> "idle"]]
    /\ session_tx = <<>>
    /\ receivers = EmptyMap
    /\ client_state = [c \in ManagerClients |->
                          [connected |-> TRUE, subscribed_sessions |-> {}]]
    /\ in_memory = FALSE
    /\ session_file \in Histories
    /\ session2 = None
    /\ agent_spawns = 0
    /\ InitSide

\* The subscribe requests of this part are the ones that find no live state.
HandleColdSubscribeMessage(client_id) ==
    /\ ~in_memory
    /\ HandleSubscribeMessage(client_id)

ColdNext ==
    \/ \E client_id \in ManagerClients : HandleColdSubscribeMessage(client_id)
    \/ \E resumed \in BOOLEAN : ResumeSession(resumed)
    \/ ColdCreateSession
    \/ ColdSubscribeReturn
    \/ LoaderLoad
    \/ LoaderBroadcast
    \/ \E update \in ManagerUpdates : FoldUpdate(update)
    \/ ForwardUpdate

\* tokio runs every spawned task; the background task has no await point.
ColdSpec ==
    ColdInit /\ [][ColdNext]_vars /\ WF_vars(LoaderLoad) /\ WF_vars(LoaderBroadcast)

\* ------------------------------------------------- resumed session, live
\* The cold subscribe and its background task, interleaved with the folds of
\* agent updates and of submitted prompts on the resumed session.
ResumeNext ==
    \/ ColdNext
    \/ \E m \in ManagerPrompts : FoldUserMessage(m.content, m.message_id)
    \/ BroadcastUserMessage
    \/ PublishUserMessage

ResumeSpec ==
    ColdInit /\ [][ResumeNext]_vars /\ WF_vars(LoaderLoad) /\ WF_vars(LoaderBroadcast)

\* ------------------------------------------------- prompt with auto-resume
\* Strings of error texts, as sequences of words.
to_lowercase(text) ==
    [i \in 1..Len(text) |->
        CASE text[i] = "Session" -> "session"
          [] text[i] = "Not" -> "not"
          [] text[i] = "Found" -> "found"
          [] text[i] = "Internal" -> "internal"
          [] OTHER -> text[i]]

contains(text, pattern) ==
    \E i \in 1..(Len(text) - Len(pattern) + 1) :
        SubSeq(text, i, i + Len(pattern) - 1) = pattern

\* AcpError values manager.prompt can return.
RpcError(message, data) == [error |-> "Rpc", message |-> message, data |-> data]
PromptErrors ==
    { RpcError(<<"Session", "not", "found">>, None),
      RpcError(<<"Internal", "error">>,
               Some([details |-> Some(<<"Session", "Not", "Found", ":", "s1">>)])),
      RpcError(<<"Internal", "error">>, Some([details |-> Some(<<"disk", "full">>)])),
      RpcError(<<"Internal", "error">>, Some([details |-> None])),
      RpcError(<<"session", "found">>, None),
      [error |-> "ChannelClosed"] }

\* send_prompt_handler's test of the error of the first prompt.
is_session_not_found(e) ==
    /\ e.error = "Rpc"
    /\ \/ contains(to_lowercase(e.message), <<"session", "not", "found">>)
       \/ /\ IsSome(e.data)
          /\ IsSome(Unwrap(e.data).details)
          /\ contains(to_lowercase(Unwrap(Unwrap(e.data).details)),
                      <<"session", "not", "found">>)

\* Mutant of create_session_with_history: loads the history into the state
\* the manager already holds under the id.
create_session_with_history_into_existing(existing, items, now) ==
    IF IsSome(existing)
    THEN [Unwrap(existing) EXCEPT !.chat_items = items \o @, !.updated_at = now]
    ELSE load_history(NewSessionState(None, now), items, now)

\* SessionStateManager::create_session_with_history: a state built from
\* scratch, whatever the manager held under the id.
create_session_with_history(existing, items, now) ==
    load_history(NewSessionState(None, now), items, now)

MessageAddedFor(session_id, message) ==
    [method |-> "session/state_update",
     params |-> [sessionId |-> session_id,
                 update |-> [updateType |-> "message_added", message |-> message]]]

\* The state the manager holds under an id.
StateOf(session_id) ==
    IF session_id = "s1" THEN (IF in_memory THEN Some(session) ELSE None) ELSE session2

LastMessageOf(state) ==
    IF IsMessage(Last(state.chat_items)) THEN Some(Last(state.chat_items).message) ELSE None

\* The variables send_prompt_handler never touches.
prompt_frame == <<forwarder_alive, agent_client, agent_requests, permission_rx,
                  pending_permission, global_pending_permission, dangerous_mode,
                  agent_stdin, respond_results, rpc_vars, receivers, client_state,
                  session_file, agent_spawns, side_vars>>

\* send_prompt_handler up to the first manager.prompt: add_user_message (a
\* no-op without a live state), then message_added for the last chat item.
SendPrompt(content, message_id) ==
    /\ mgr_task["prompt"].pc = "idle"
    /\ Len(calls) < MaxOps
    /\ IF in_memory
       THEN LET r == add_user_message(session, content, message_id, Now)
            IN /\ session' = r.state
               /\ last_delta' = r.delta
               /\ last_sent' = broadcast_update(r.delta)
               /\ session_tx' = IF subscribers # {}
                                THEN Append(session_tx, [delta |-> r.delta,
                                                         fold |-> Len(calls) + 1])
                                ELSE session_tx
               /\ events' = Append(events, MessageAddedFor("s1", LastMessageOf(r.state)))
       ELSE UNCHANGED <<session, last_delta, last_sent, session_tx, events>>
    /\ calls' = Append(calls, [call |-> "add_user_message", content |-> content,
                                message_id |-> message_id])
    /\ mgr_task' = [mgr_task EXCEPT !["prompt"] =
           [pc |-> "prompting", content |-> content, message_id |-> message_id,
            prompts |-> 1]]
    /\ UNCHANGED <<subscribers, in_memory, session2, prompt_frame>>

\* The agent answers the first prompt.
PromptSucceeds ==
    /\ mgr_task["prompt"].pc = "prompting"
    /\ mgr_task' = [mgr_task EXCEPT !["prompt"] =
           [pc |-> "returned", result |-> "Ok", resumed |-> None,
            content |-> mgr_task["prompt"].content,
            message_id |-> mgr_task["prompt"].message_id,
            prompts |-> mgr_task["prompt"].prompts]]
    /\ UNCHANGED <<chat_vars, session_tx, events, in_memory, session2, prompt_frame>>

\* The first prompt fails: a stale session starts the auto-resume, any other
\* error is returned.
PromptFails(e) ==
    /\ mgr_task["prompt"].pc = "prompting"
    /\ mgr_task' = [mgr_task EXCEPT !["prompt"] =
           IF is_session_not_found(e)
           THEN [@ EXCEPT !.pc = "resuming"]
           ELSE [pc |-> "returned", result |-> "Err(e)", resumed |-> None,
                 content |-> @.content, message_id |-> @.message_id,
                 prompts |-> @.prompts]]
    /\ UNCHANGED <<chat_vars, session_tx, events, in_memory, session2, prompt_frame>>

\* get_session_info, ensure_agent_connected or resume_session fails.
AutoResumeFails ==
    /\ mgr_task["prompt"].pc = "resuming"
    /\ mgr_task' = [mgr_task EXCEPT !["prompt"] =
           [pc |-> "returned", result |-> "Err(Failed to auto-resume session)",
            resumed |-> None, content |-> @.content, message_id |-> @.message_id,
            prompts |-> @.prompts]]
    /\ UNCHANGED <<chat_vars, session_tx, events, in_memory, session2, prompt_frame>>

\* resume_session answers with session_id; load_chat_items and
\* create_session_with_history under that id (a fresh subscription too).
AutoResumeCreate(session_id) ==
    /\ mgr_task["prompt"].pc = "resuming"
    /\ LET created == create_session_with_history(StateOf(session_id), session_file, Now)
       IN IF session_id = "s1"
          THEN /\ session' = created
               /\ in_memory' = TRUE
               /\ subscribers' = {}
               /\ UNCHANGED session2
          ELSE /\ session2' = Some(created)
               /\ UNCHANGED <<session, in_memory, subscribers>>
    /\ mgr_task' = [mgr_task EXCEPT !["prompt"] =
           [@ EXCEPT !.pc = "created"] @@ [resumed |-> session_id]]
    /\ UNCHANGED <<forwarder_alive, calls, last_delta, last_sent, session_tx, events,
                   prompt_frame>>

\* add_user_message on the resumed session, message_added for its last chat
\* item, then the prompt is sent again.
AutoResumeAddUserMessage ==
    /\ mgr_task["prompt"].pc = "created"
    /\ LET session_id == mgr_task["prompt"].resumed
           r == add_user_message(Unwrap(StateOf(session_id)), mgr_task["prompt"].content,
                                 mgr_task["prompt"].message_id, Now)
       IN /\ IF session_id = "s1"
             THEN session' = r.state /\ UNCHANGED session2
             ELSE session2' = Some(r.state) /\ UNCHANGED session
          /\ last_delta' = r.delta
          /\ last_sent' = None
          /\ events' = Append(events, MessageAddedFor(session_id, LastMessageOf(r.state)))
    /\ mgr_task' = [mgr_task EXCEPT !["prompt"].pc = "retrying",
                                    !["prompt"].prompts = @ + 1]
    /\ UNCHANGED <<subscribers, forwarder_alive, calls, session_tx, in_memory,
                   prompt_frame>>

\* The agent answers the second prompt; an error is returned as it is.
RetryReturns(result) ==
    /\ mgr_task["prompt"].pc = "retrying"
    /\ mgr_task' = [mgr_task EXCEPT !["prompt"] =
           [pc |-> "returned", result |-> result, resumed |-> Some(@.resumed),
            content |-> @.content, message_id |-> @.message_id,
            prompts |-> @.prompts]]
    /\ UNCHANGED <<chat_vars, session_tx, events, in_memory, session2, prompt_frame>>

PromptInit ==
    /\ in_memory \in BOOLEAN
    /\ session_file \in Histories \cup {<<>>}
    /\ session = IF in_memory THEN load_history(NewSessionState(None, 0), session_file, 0)
                 ELSE NewSessionState(None, 0)
    /\ session2 = None
    /\ subscribers \in {{}, {"c1"}}
    /\ forwarder_alive = TRUE
    /\ calls = <<>>
    /\ last_delta = Noop
    /\ last_sent = None
    /\ InitPermissions
    /\ InitTransport
    /\ mgr_task = [t \in ManagerTasks |-> [pc |-> "idle"]]
    /\ session_tx = <<>>
    /\ receivers = EmptyMap
    /\ client_state = [c \in ManagerClients |->
                          [connected |-> TRUE, subscribed_sessions |-> {}]]
    /\ agent_spawns = 0
    /\ InitSide

PromptNext ==
    \/ \E m \in UserMessages : SendPrompt(m.content, m.message_id)
    \/ PromptSucceeds
    \/ \E e \in PromptErrors : PromptFails(e)
    \/ AutoResumeFails
    \/ \E session_id \in SessionIds : AutoResumeCreate(session_id)
    \/ AutoResumeAddUserMessage
    \/ \E result \in {"Ok", "Err(Failed to send prompt after resume)"} :
          RetryReturns(result)
    \/ \E update \in ManagerUpdates : FoldUpdate(update)
    \/ ForwardUpdate

PromptSpec == PromptInit /\ [][PromptNext]_vars

\* ------------------------------------------------- starting the agent
MaxSpawns == 3

LazyTasks == {"lazy1", "lazy2"}

\* AcpClient::is_connected: write_tx.is_some() of the stored client.
is_connected(client) == IsSome(client)

\* The variables the agent's start and stop never touch.
agent_frame == <<chat_vars, agent_requests, permission_rx, pending_permission,
                 global_pending_permission, dangerous_mode, agent_stdin, events,
                 respond_results, rpc_vars, session_tx, receivers, client_state,
                 in_memory, session_file, session2, side_vars>>

\* dispatch_method "connect": connect_handler calls AgentManager::connect,
\* which starts an agent process and stores the new client; a failed start
\* is returned as the error.
ConnectMethod(started) ==
    /\ agent_spawns < MaxSpawns
    /\ IF started
       THEN /\ agent_spawns' = agent_spawns + 1
            /\ agent_client' = Some("open")
            /\ mgr_task' = [mgr_task EXCEPT !["connect"] = [pc |-> "idle", result |-> "null"]]
       ELSE /\ UNCHANGED <<agent_spawns, agent_client>>
            /\ mgr_task' = [mgr_task EXCEPT !["connect"] = [pc |-> "idle", result |-> "Err"]]
    /\ UNCHANGED agent_frame

\* dispatch_method "disconnect": AgentManager::disconnect takes the client.
DisconnectMethod ==
    /\ IsSome(agent_client)
    /\ agent_client' = None
    /\ UNCHANGED <<agent_spawns, mgr_task, agent_frame>>

\* ensure_agent_connected, first block: done if a connected client is stored.
EnsureAgentCheck(t) ==
    /\ mgr_task[t].pc = "idle"
    /\ mgr_task' = [mgr_task EXCEPT ![t] =
           IF is_connected(agent_client) THEN [pc |-> "idle", result |-> "Ok"]
           ELSE [pc |-> "starting"]]
    /\ mgr_task'[t] # mgr_task[t]
    /\ UNCHANGED <<agent_spawns, agent_client, agent_frame>>

\* ensure_agent_connected, the rest: start the agent, initialize it, store
\* the client; an error of either step is returned.
EnsureAgentStart(t, started, initialized) ==
    /\ mgr_task[t].pc = "starting"
    /\ agent_spawns < MaxSpawns
    /\ agent_spawns' = IF started THEN agent_spawns + 1 ELSE agent_spawns
    /\ agent_client' = IF started /\ initialized THEN Some("open") ELSE agent_client
    /\ mgr_task' = [mgr_task EXCEPT ![t] =
           [pc |-> "idle", result |-> IF started /\ initialized THEN "Ok" ELSE "Err"]]
    /\ UNCHANGED agent_frame

\* The writer task of the stored client ends.
AgentWriterExit ==
    /\ agent_client = Some("open")
    /\ agent_client' = Some("closed")
    /\ UNCHANGED <<agent_spawns, mgr_task, agent_frame>>

AgentNext ==
    \/ \E started \in BOOLEAN : ConnectMethod(started)
    \/ DisconnectMethod
    \/ \E t \in LazyTasks : EnsureAgentCheck(t)
    \/ \E t \in LazyTasks, started, initialized \in BOOLEAN :
           EnsureAgentStart(t, started, initialized)
    \/ AgentWriterExit

AgentSpec == MgrInit /\ [][AgentNext]_vars

\* ------------------------------------------------- the lock around the client
\* tokio::sync::RwLock: waiters are served first in, first out; a reader gets
\* the lock while no writer holds it, a writer while nobody holds it.
Grantable(lock, mode) ==
    /\ lock.writer = None
    /\ mode = "write" => lock.readers = {}

Enqueue(lock, t, mode) ==
    [lock EXCEPT !.queue = Append(@, [task |-> t, mode |-> mode])]

GrantHead(lock) ==
    IF lock.queue[1].mode = "read"
    THEN [lock EXCEPT !.readers = @ \cup {lock.queue[1].task}, !.queue = Tail(@)]
    ELSE [lock EXCEPT !.writer = Some(lock.queue[1].task), !.queue = Tail(@)]

Release(lock, t) ==
    [lock EXCEPT !.readers = @ \ {t},
                 !.writer = IF @ = Some(t) THEN None ELSE @]

Holds(t) == t \in client_lock.readers \/ client_lock.writer = Some(t)

\* The variables the requests on the agent client never touch.
lock_frame == <<chat_vars, agent_requests, permission_rx, pending_permission,
                global_pending_permission, dangerous_mode, events, respond_results,
                rpc_vars, session_tx, receivers, client_state, in_memory, session_file,
                session2, aux_vars>>

\* A request task reaches self.client.read().await or .write().await.
AwaitClientLock(t, mode) ==
    /\ mgr_task[t].pc = "idle"
    /\ mgr_task' = [mgr_task EXCEPT ![t] = [pc |-> "waiting"]]
    /\ client_lock' = Enqueue(client_lock, t, mode)

\* send_prompt: AgentManager::prompt asks for the read lock.
PromptRequest ==
    /\ AwaitClientLock("prompt", "read")
    /\ UNCHANGED <<agent_client, agent_spawns, agent_stdin, lock_frame>>

\* The lock serves the waiter at the head of its queue.
GrantClientLock ==
    /\ client_lock.queue # <<>>
    /\ Grantable(client_lock, client_lock.queue[1].mode)
    /\ client_lock' = GrantHead(client_lock)
    /\ mgr_task' = [mgr_task EXCEPT ![client_lock.queue[1].task] =
           IF client_lock.queue[1].task = "prompt"
           THEN [pc |-> "holding", agent |-> agent_spawns, asked |-> FALSE]
           ELSE [pc |-> "holding"]]
    /\ UNCHANGED <<agent_client, agent_spawns, agent_stdin, lock_frame>>

\* While the prompt is in flight under the read guard, the agent asks for a
\* permission.
AgentAsksPermission ==
    /\ mgr_task["prompt"].pc = "holding"
    /\ IsSome(agent_client)
    /\ ~mgr_task["prompt"].asked
    /\ mgr_task' = [mgr_task EXCEPT !["prompt"].asked = TRUE]
    /\ UNCHANGED <<client_lock, agent_client, agent_spawns, agent_stdin, lock_frame>>

\* A client answers the permission: respond_permission_handler asks for the
\* read lock.
RespondRequest ==
    /\ mgr_task["prompt"].pc = "holding"
    /\ mgr_task["prompt"].asked
    /\ AwaitClientLock("respond", "read")
    /\ UNCHANGED <<agent_client, agent_spawns, agent_stdin, lock_frame>>

\* AgentManager::respond_permission under the read guard: NotConnected
\* without a client, else the response goes to the stored client's agent.
RespondWrite ==
    /\ mgr_task["respond"].pc = "holding"
    /\ client_lock' = Release(client_lock, "respond")
    /\ IF IsSome(agent_client)
       THEN /\ agent_stdin' = Append(agent_stdin,
                   [line |-> "response", by |-> "client", agent |-> agent_spawns])
            /\ mgr_task' = [mgr_task EXCEPT !["respond"] =
                   [pc |-> "done", result |-> "Ok", agent |-> agent_spawns]]
       ELSE /\ UNCHANGED agent_stdin
            /\ mgr_task' = [mgr_task EXCEPT !["respond"] =
                   [pc |-> "done", result |-> "NotConnected"]]
    /\ UNCHANGED <<agent_client, agent_spawns, lock_frame>>

\* The agent that asked has its answer and completes the prompt.
PromptCompletes ==
    /\ mgr_task["prompt"].pc = "holding"
    /\ mgr_task["prompt"].asked
    /\ \E i \in 1..Len(agent_stdin) : agent_stdin[i].agent = mgr_task["prompt"].agent
    /\ client_lock' = Release(client_lock, "prompt")
    /\ mgr_task' = [mgr_task EXCEPT !["prompt"] = [pc |-> "done", result |-> "Ok"]]
    /\ UNCHANGED <<agent_client, agent_spawns, agent_stdin, lock_frame>>

\* send_request's timeout of 300 s ends the prompt with AcpError::Timeout.
PromptTimeout ==
    /\ mgr_task["prompt"].pc = "holding"
    /\ IsSome(agent_client)
    /\ client_lock' = Release(client_lock, "prompt")
    /\ mgr_task' = [mgr_task EXCEPT !["prompt"] = [pc |-> "done", result |-> "Timeout"]]
    /\ UNCHANGED <<agent_client, agent_spawns, agent_stdin, lock_frame>>

\* A client sends connect while the prompt is in flight: AgentManager::connect
\* starts an agent, then asks for the write lock.
ConnectRequest ==
    /\ mgr_task["prompt"].pc = "holding"
    /\ AwaitClientLock("connect", "write")
    /\ agent_spawns' = agent_spawns + 1
    /\ UNCHANGED <<agent_client, agent_stdin, lock_frame>>

\* AgentManager::connect under the write guard: the new client is stored.
ConnectStore ==
    /\ mgr_task["connect"].pc = "holding"
    /\ agent_client' = Some("open")
    /\ client_lock' = Release(client_lock, "connect")
    /\ mgr_task' = [mgr_task EXCEPT !["connect"] = [pc |-> "done"]]
    /\ UNCHANGED <<agent_spawns, agent_stdin, lock_frame>>

\* A client sends disconnect while the prompt is in flight:
\* AgentManager::disconnect asks for the write lock.
DisconnectRequest ==
    /\ mgr_task["prompt"].pc = "holding"
    /\ AwaitClientLock("disconnect", "write")
    /\ UNCHANGED <<agent_client, agent_spawns, agent_stdin, lock_frame>>

\* AgentManager::disconnect under the write guard: the client is taken.
DisconnectTake ==
    /\ mgr_task["disconnect"].pc = "holding"
    /\ agent_client' = None
    /\ client_lock' = Release(client_lock, "disconnect")
    /\ mgr_task' = [mgr_task EXCEPT !["disconnect"] = [pc |-> "done"]]
    /\ UNCHANGED <<agent_spawns, agent_stdin, lock_frame>>

\* An agent is running and its client is stored.
LockInit ==
    /\ session = NewSessionState(None, 0)
    /\ subscribers = {}
    /\ forwarder_alive = TRUE
    /\ calls = <<>>
    /\ last_delta = Noop
    /\ last_sent = None
    /\ agent_client = Some("open")
    /\ agent_requests = <<>>
    /\ permission_rx = <<>>
    /\ pending_permission = [s \in SessionIds |-> None]
    /\ global_pending_permission = None
    /\ dangerous_mode = [s \in SessionIds |-> FALSE]
    /\ agent_stdin = <<>>
    /\ events = <<>>
    /\ respond_results = <<>>
    /\ InitTransport
    /\ mgr_task = [t \in ManagerTasks |-> [pc |-> "idle"]]
    /\ session_tx = <<>>
    /\ receivers = EmptyMap
    /\ client_state = [c \in ManagerClients |->
                          [connected |-> TRUE, subscribed_sessions |-> {}]]
    /\ in_memory = TRUE
    /\ session_file = <<>>
    /\ session2 = None
    /\ agent_spawns = 1
    /\ client_lock = FreeLock
    /\ InitAux("none")

LockNext ==
    \/ PromptRequest
    \/ GrantClientLock
    \/ AgentAsksPermission
    \/ RespondRequest
    \/ RespondWrite
    \/ PromptCompletes
    \/ PromptTimeout
    \/ ConnectRequest
    \/ ConnectStore
    \/ DisconnectRequest
    \/ DisconnectTake

\* Every task that can run does run, the lock serves its queue, the agent
\* answers, and the timeout fires; clients send requests as they please.
LockSpec ==
    /\ LockInit /\ [][LockNext]_vars
    /\ WF_vars(GrantClientLock) /\ WF_vars(RespondWrite) /\ WF_vars(PromptCompletes)
    /\ WF_vars(PromptTimeout) /\ WF_vars(ConnectStore) /\ WF_vars(DisconnectTake)

\* ------------------------------------------------- path keys
\* cwd_to_path_key(cwd)
CwdToPathKey ==
    /\ path_call.pc = "input"
    /\ path_call' = [path_call EXCEPT
           !.pc = "keyed",
           !.path_key = cwd_to_path_key(path_call.cwd, path_call.canonical)]
    /\ UNCHANGED not_path_vars

\* path_key_to_cwd(path_key)
PathKeyToCwd ==
    /\ path_call.pc = "keyed"
    /\ path_call' = [path_call EXCEPT
           !.pc = "back", !.back = path_key_to_cwd(path_call.path_key)]
    /\ UNCHANGED not_path_vars

PathInit == InitCore /\ InitAux("path")

PathNext ==
    \/ CwdToPathKey
    \/ PathKeyToCwd

PathSpec == PathInit /\ [][PathNext]_vars

\* ------------------------------------------------- terminals
\* create_terminal(working_dir, cols, rows): the PTY opens and the shell starts;
\* the handle is inserted, the reader and the input thread are started.
CreateTerminal(working_dir) ==
    /\ TerminalIds \ DOMAIN pty # {}
    /\ LET id == CHOOSE t \in TerminalIds \ DOMAIN pty : TRUE
       IN  /\ terminals' = MapInsert(terminals, id,
                                      [id |-> id, working_dir |-> working_dir])
           /\ pty' = MapInsert(pty, id, RunningPty)
           /\ term_result' = Some([call |-> "create_terminal", ok |-> id])
    /\ UNCHANGED not_term_vars

\* create_terminal: openpty or spawn_command fails, nothing is inserted.
CreateTerminalFails ==
    /\ term_result' = Some([call |-> "create_terminal", err |-> "Failed to open PTY"])
    /\ UNCHANGED <<terminals, pty, not_term_vars>>

\* handle.input_tx.send(input): fails once the input thread has dropped input_rx.
SendInput(id, call, input) ==
    IF id \notin DOMAIN terminals
    THEN /\ term_result' = Some([call |-> call, err |-> TerminalNotFound(id)])
         /\ UNCHANGED pty
    ELSE IF pty[id].input = "receiving"
    THEN /\ Len(pty[id].input_rx) < MaxInputs
         /\ pty' = [pty EXCEPT ![id].input_rx = Append(@, input)]
         /\ term_result' = Some([call |-> call, ok |-> id])
    ELSE /\ term_result' = Some([call |-> call, err |-> "Failed to send to terminal"])
         /\ UNCHANGED pty

\* write_to_terminal(terminal_id, data)
WriteToTerminal(id) ==
    /\ SendInput(id, "write_to_terminal", "Data")
    /\ UNCHANGED <<terminals, not_term_vars>>

\* resize_terminal(terminal_id, cols, rows)
ResizeTerminal(id) ==
    /\ SendInput(id, "resize_terminal", "Resize")
    /\ UNCHANGED <<terminals, not_term_vars>>

\* kill_terminal(terminal_id)
KillTerminal(id) ==
    /\ LET k == kill_terminal(terminals, pty, id)
       IN  /\ terminals' = k.terminals
           /\ pty' = k.pty
           /\ term_result' = Some(k.result)
    /\ UNCHANGED not_term_vars

\* list_terminals()
ListTerminals ==
    /\ term_result' = Some([call |-> "list_terminals",
                            ok |-> {terminals[id] : id \in DOMAIN terminals}])
    /\ UNCHANGED <<terminals, pty, not_term_vars>>

\* The shell exits: the user typed exit, or the PTY master was dropped.
ChildExits(id) ==
    /\ id \in DOMAIN pty
    /\ pty[id].child = "running"
    /\ pty' = [pty EXCEPT ![id].child = "exited"]
    /\ UNCHANGED <<terminals, term_result, not_term_vars>>

\* Reader thread: reader.read returns Ok(0) or Err, the loop breaks.
ReaderEof(id) ==
    /\ id \in DOMAIN pty
    /\ pty[id].child = "exited"
    /\ pty[id].reader = "reading"
    /\ pty' = [pty EXCEPT ![id].reader = "exited"]
    /\ UNCHANGED <<terminals, term_result, not_term_vars>>

\* Input thread: one input received. Kill breaks the loop; so does a Data
\* whose write_all fails, which can happen once the child has exited.
InputReceived(id, write_fails) ==
    /\ id \in DOMAIN pty
    /\ pty[id].input = "receiving"
    /\ pty[id].input_rx # <<>>
    /\ write_fails => (Head(pty[id].input_rx) = "Data" /\ pty[id].child = "exited")
    /\ pty' = [pty EXCEPT
           ![id].input_rx = Tail(@),
           ![id].input = IF Head(pty[id].input_rx) = "Kill" \/ write_fails
                         THEN "exited" ELSE @]
    /\ UNCHANGED <<terminals, term_result, not_term_vars>>

TermInit == InitCore /\ InitAux("terminal")

TermNext ==
    \/ \E working_dir \in WorkingDirs : CreateTerminal(working_dir)
    \/ CreateTerminalFails
    \/ \E id \in TerminalIds : WriteToTerminal(id)
    \/ \E id \in TerminalIds : ResizeTerminal(id)
    \/ \E id \in TerminalIds : KillTerminal(id)
    \/ ListTerminals
    \/ \E id \in TerminalIds : ChildExits(id)
    \/ \E id \in TerminalIds : ReaderEof(id)
    \/ \E id \in TerminalIds, write_fails \in BOOLEAN : InputReceived(id, write_fails)

TermSpec == TermInit /\ [][TermNext]_vars

\* ------------------------------------------------- WebSocket frames
\* handle_socket: Ok(Message::Text(text)) spawns a task for the frame and the
\* loop goes on.
ReceiveText(text) ==
    /\ ws_open
    /\ ws_received < MaxFrames
    /\ ws_received' = ws_received + 1
    /\ ws_tasks' = ws_tasks \cup {[frame |-> ws_received + 1, text |-> text]}
    /\ UNCHANGED <<ws_open, ws_tx, term_vars, not_ws_vars>>

\* The spawned task: handle_message, then ws_tx.send(response); the write
\* task puts it on the socket unless the connection has ended.
HandleMessage(task) ==
    /\ task \in ws_tasks
    /\ LET h == handle_message(task.text, terminals, pty)
       IN  /\ terminals' = h.terminals
           /\ pty' = h.pty
           /\ term_result' = IF IsSome(h.called) THEN h.called ELSE term_result
           /\ ws_tx' = IF ws_open
                        THEN Append(ws_tx, [frame |-> task.frame, text |-> task.text,
                                            response |-> h.response])
                        ELSE ws_tx
    /\ ws_tasks' = ws_tasks \ {task}
    /\ UNCHANGED <<ws_open, ws_received, not_ws_vars>>

\* handle_socket: Ok(Message::Close(_)) or Err(e) ends the loop; the write
\* task is aborted.
ReceiveClose ==
    /\ ws_open
    /\ ws_open' = FALSE
    /\ UNCHANGED <<ws_received, ws_tasks, ws_tx, term_vars, not_ws_vars>>

WsInit == InitCore /\ InitAux("ws")

WsNext ==
    \/ \E text \in WsTexts : ReceiveText(text)
    \/ \E n \in 1..MaxFrames, text \in WsTexts :
            HandleMessage([frame |-> n, text |-> text])
    \/ ReceiveClose

WsSpec == WsInit /\ [][WsNext]_vars

\* ------------------------------------------------- listing sessions
\* list_sessions(cwd, limit, offset)
ListSessions ==
    /\ list_call.pc = "called"
    /\ LET infos == all_sessions(active_sessions, projects_dir, list_call.cwd)
       IN  \E order \in SortedOrders(infos) :
               list_call' = [list_call EXCEPT
                   !.pc = "returned",
                   !.response = Some(list_sessions(infos, order, list_call.limit,
                                                   list_call.offset))]
    /\ UNCHANGED <<active_sessions, projects_dir, not_list_vars>>

ListInit == InitCore /\ InitAux("list")

ListNext == ListSessions

ListSpec == ListInit /\ [][ListNext]_vars

\* ------------------------------------------------- sessions of the manager
\* A call on the manager begins: at most one call is between its two lock
\* sections, the other calls take their locks once.
BeginCall ==
    /\ sm_call = None
    /\ sm_ops < MaxManagerCalls
    /\ sm_ops' = sm_ops + 1

Returned(call, session_id, value) ==
    Some([call |-> call, session_id |-> session_id, value |-> value])

\* create_session(id, cwd, modes, models): state and subscription inserted
\* under both write locks.
ManagerCreateSession(id) ==
    /\ BeginCall
    /\ states' = MapInsert(states, id, NewSessionState(None, sm_ops + 1))
    /\ subscriptions' = MapInsert(subscriptions, id, NewSubscription)
    /\ sm_result' = Returned("create_session", id, Some(states'[id]))
    /\ UNCHANGED <<sm_call, not_sm_vars>>

\* remove_session(id)
ManagerRemoveSession(id) ==
    /\ BeginCall
    /\ LET r == remove_session(states, subscriptions, id)
       IN  states' = r.states /\ subscriptions' = r.subscriptions
    /\ sm_result' = Returned("remove_session", id, None)
    /\ UNCHANGED <<sm_call, not_sm_vars>>

\* apply_update / add_user_message, first lock section: the fold under
\* states.write(), or the early return for an unknown session.
ManagerFold(call, id, fold(_)) ==
    /\ IF has_session(states, id)
       THEN LET r == fold(states[id])
            IN  /\ states' = [states EXCEPT ![id] = r.state]
                /\ IF r.delta = Noop
                   THEN sm_call' = None /\ sm_result' = Returned(call, id, None)
                   ELSE /\ sm_call' = Some([call |-> call, session_id |-> id,
                                             delta |-> r.delta])
                        /\ UNCHANGED sm_result
       ELSE /\ sm_result' = Returned(call, id, None)
            /\ UNCHANGED <<states, sm_call>>
    /\ UNCHANGED <<subscriptions, not_sm_vars>>

ManagerApplyUpdate(id, update) ==
    /\ BeginCall
    /\ ManagerFold("apply_update", id,
                   LAMBDA st : apply_update(st, update, sm_ops + 1))

ManagerAddUserMessage(id, m) ==
    /\ BeginCall
    /\ ManagerFold("add_user_message", id,
                   LAMBDA st : add_user_message(st, m.content, m.message_id, sm_ops + 1))

\* apply_update / add_user_message, second lock section: broadcast_update.
ManagerBroadcast ==
    /\ IsSome(sm_call)
    /\ Unwrap(sm_call).call \in {"apply_update", "add_user_message"}
    /\ subscriptions' = broadcast_to(subscriptions, Unwrap(sm_call).session_id,
                                     Unwrap(sm_call).delta)
    /\ sm_call' = None
    /\ sm_result' = Returned(Unwrap(sm_call).call, Unwrap(sm_call).session_id, None)
    /\ UNCHANGED <<states, sm_ops, not_sm_vars>>

\* load_history(session_id, chat_items)
ManagerLoadHistory(id, items) ==
    /\ BeginCall
    /\ states' = IF has_session(states, id)
                 THEN [states EXCEPT ![id] = load_history(@, items, sm_ops + 1)]
                 ELSE states
    /\ sm_result' = Returned("load_history", id, None)
    /\ UNCHANGED <<subscriptions, sm_call, not_sm_vars>>

\* subscribe(client_id, session_id), first lock section: the state is cloned,
\* or None is returned.
ManagerSubscribe(client_id, id) ==
    /\ BeginCall
    /\ IF has_session(states, id)
       THEN /\ sm_call' = Some([call |-> "subscribe", session_id |-> id,
                                 client_id |-> client_id, state |-> states[id]])
            /\ UNCHANGED sm_result
       ELSE /\ sm_result' = Returned("subscribe", id, None)
            /\ UNCHANGED sm_call
    /\ UNCHANGED <<states, subscriptions, not_sm_vars>>

\* subscribe, second lock section: the client joins the subscribers, or None
\* is returned.
ManagerSubscribeRegister ==
    /\ IsSome(sm_call)
    /\ Unwrap(sm_call).call = "subscribe"
    /\ LET c == Unwrap(sm_call)
       IN  IF c.session_id \in DOMAIN subscriptions
           THEN /\ subscriptions' = [subscriptions EXCEPT
                       ![c.session_id].subscribers = @ \cup {c.client_id}]
                /\ sm_result' = Returned("subscribe", c.session_id, Some(c.state))
           ELSE /\ sm_result' = Returned("subscribe", c.session_id, None)
                /\ UNCHANGED subscriptions
    /\ sm_call' = None
    /\ UNCHANGED <<states, sm_ops, not_sm_vars>>

\* unsubscribe(client_id, session_id)
ManagerUnsubscribe(client_id, id) ==
    /\ BeginCall
    /\ subscriptions' = unsubscribe(subscriptions, client_id, id)
    /\ sm_result' = Returned("unsubscribe", id, Some(client_id))
    /\ UNCHANGED <<states, sm_call, not_sm_vars>>

\* unsubscribe_all(client_id)
ManagerUnsubscribeAll(client_id) ==
    /\ BeginCall
    /\ subscriptions' = unsubscribe_all(subscriptions, client_id)
    /\ sm_result' = Returned("unsubscribe_all", "", Some(client_id))
    /\ UNCHANGED <<states, sm_call, not_sm_vars>>

SessionsInit == InitCore /\ InitAux("sessions")

SessionsNext ==
    \/ \E id \in SessionIds : ManagerCreateSession(id)
    \/ \E id \in SessionIds : ManagerRemoveSession(id)
    \/ \E id \in SessionIds :
          ManagerApplyUpdate(id, [sessionUpdate |-> "agent_message_chunk",
                                  content |-> TextBlock(<<"A">>)])
    \/ \E id \in SessionIds, m \in ManagerPrompts : ManagerAddUserMessage(id, m)
    \/ ManagerBroadcast
    \/ \E id \in SessionIds : ManagerLoadHistory(id, <<HistToolCall("t2")>>)
    \/ \E client_id \in ManagerClients, id \in SessionIds :
          ManagerSubscribe(client_id, id)
    \/ ManagerSubscribeRegister
    \/ \E client_id \in ManagerClients, id \in SessionIds :
          ManagerUnsubscribe(client_id, id)
    \/ \E client_id \in ManagerClients : ManagerUnsubscribeAll(client_id)

SessionsSpec == SessionsInit /\ [][SessionsNext]_vars

\* ------------------------------------------------- the reader task
\* The reader task takes the next line of the agent's stdout and handles it.
ReadLine(line) ==
    /\ reader.running
    /\ reader.read < MaxLines
    /\ LET r == read_line(line, reader.pending)
       IN  reader' =
             [running |-> TRUE,
              read |-> reader.read + 1,
              last |-> Some(line),
              pending |-> r.pending,
              slots |-> IF IsSome(r.complete)
                        THEN [reader.slots EXCEPT ![Unwrap(r.complete).slot] =
                                 Append(@, Unwrap(r.complete).result)]
                        ELSE reader.slots,
              notification_tx |-> IF IsSome(r.notification)
                                  THEN Append(reader.notification_tx,
                                              Unwrap(r.notification))
                                  ELSE reader.notification_tx,
              permission_tx |-> IF IsSome(r.permission)
                                THEN Append(reader.permission_tx, Unwrap(r.permission))
                                ELSE reader.permission_tx]
    /\ UNCHANGED not_reader_vars

\* lines.next_line() gives Ok(None) at the end of stdout, or Err: the loop ends.
ReaderLoopEnds ==
    /\ reader.running
    /\ reader' = [reader EXCEPT !.running = FALSE]
    /\ UNCHANGED not_reader_vars

ReaderInit ==
    /\ InitCore
    /\ InitAux("reader")

ReaderNext ==
    \/ \E line \in StdoutLines : ReadLine(line)
    \/ ReaderLoopEnds

ReaderSpec == ReaderInit /\ [][ReaderNext]_vars

\* ------------------------------------------------- the history loader
\* SessionRegistry::load_chat_items on the session's file.
LoadSessionChatItems ==
    /\ history.loaded = None
    /\ history' = [history EXCEPT !.loaded = Some(load_session_chat_items(history.file))]
    /\ UNCHANGED not_history_vars

HistoryInit ==
    /\ InitCore
    /\ InitAux("history")

HistoryNext == LoadSessionChatItems

HistorySpec == HistoryInit /\ [][HistoryNext]_vars

\* ------------------------------------------------- the manager's two maps
\* create_session, create_session_with_history and remove_session change the
\* states map and then the subscriptions map; the states.write() guard lives
\* until the function returns.
EntryTasks == {"e1", "e2"}
EntryOps == {"create_session", "create_session_with_history", "remove_session"}

\* Mutant of states_write_free: the states lock is released before the
\* subscriptions map is changed.
states_write_released_early(tasks) == TRUE

\* parking_lot RwLock on `states`: free while no create or remove is between
\* its two maps.
states_write_free(tasks) == \A t \in DOMAIN tasks : tasks[t].pc = "idle"

\* First half of create_session / create_session_with_history /
\* remove_session: states.write() is taken and the states map changed.
EntryStates(t, op, id) ==
    /\ entry_tasks[t].pc = "idle"
    /\ states_write_free(entry_tasks)
    /\ sm_ops < MaxManagerCalls
    /\ sm_ops' = sm_ops + 1
    /\ states' =
          CASE op = "create_session" ->
                   MapInsert(states, id, NewSessionState(None, sm_ops + 1))
            [] op = "create_session_with_history" ->
                   MapInsert(states, id,
                       create_session_with_history(get_state(states, id),
                                                   <<HistToolCall("t2")>>, sm_ops + 1))
            [] op = "remove_session" -> MapRemove(states, id)
    /\ entry_tasks' = [entry_tasks EXCEPT ![t] =
                          [pc |-> "states_locked", op |-> op, session_id |-> id]]
    /\ UNCHANGED <<subscriptions, sm_call, sm_result, entry_frame>>

\* Second half: subscriptions.write() is taken, the entry inserted or
\* removed, and both guards are dropped at the return.
EntrySubscriptions(t) ==
    /\ entry_tasks[t].pc = "states_locked"
    /\ LET c == entry_tasks[t]
       IN  /\ subscriptions' =
                 IF c.op = "remove_session"
                 THEN MapRemove(subscriptions, c.session_id)
                 ELSE MapInsert(subscriptions, c.session_id, NewSubscription)
           /\ sm_result' = Returned(c.op, c.session_id, get_state(states, c.session_id))
    /\ entry_tasks' = [entry_tasks EXCEPT ![t] = [pc |-> "idle"]]
    /\ UNCHANGED <<states, sm_call, sm_ops, entry_frame>>

\* subscribe's first lock section needs states.read().
EntrySubscribe(client_id, id) ==
    /\ states_write_free(entry_tasks)
    /\ ManagerSubscribe(client_id, id)

\* apply_update's first lock section needs states.write().
EntryApplyUpdate(id, update) ==
    /\ states_write_free(entry_tasks)
    /\ ManagerApplyUpdate(id, update)

EntriesInit == InitCore /\ InitAux("entries")

EntriesNext ==
    \/ \E t \in EntryTasks, op \in EntryOps, id \in SessionIds : EntryStates(t, op, id)
    \/ \E t \in EntryTasks : EntrySubscriptions(t)
    \/ \E client_id \in ManagerClients, id \in SessionIds : EntrySubscribe(client_id, id)
    \/ ManagerSubscribeRegister
    \/ \E client_id \in ManagerClients, id \in SessionIds :
          ManagerUnsubscribe(client_id, id)
    \/ \E id \in SessionIds :
          EntryApplyUpdate(id, [sessionUpdate |-> "agent_message_chunk",
                                content |-> TextBlock(<<"A">>)])
    \/ ManagerBroadcast

EntriesSpec == EntriesInit /\ [][EntriesNext]_vars

\* ------------------------------------------------- start-up and channels
\* main / run_headless: the notification receiver is taken out of the state
\* and handed to a task that receives and discards.
DrainNotifications ==
    /\ app.mode \in {"standalone", "headless"}
    /\ app.pc = "new"
    /\ app' = [take_rx(app, "notification", "drain") EXCEPT !.pc = "notification_drained"]
    /\ UNCHANGED not_app_vars

\* main / run_headless: the same for the permission receiver.
DrainPermissions ==
    /\ app.pc = "notification_drained"
    /\ app' = [take_rx(app, "permission", "drain") EXCEPT !.pc = "drained"]
    /\ UNCHANGED not_app_vars

\* WebSocketServer::start -> start_event_forwarding: each receiver still in
\* the state is taken and handed to its forwarding task.
StartEventForwarding ==
    /\ \/ app.mode = "desktop" /\ app.pc = "new"
       \/ app.pc = "drained"
    /\ app' = [take_rx(take_rx(app, "notification", "forwarder"),
                       "permission", "forwarder") EXCEPT !.pc = "serving"]
    /\ UNCHANGED not_app_vars

\* The transport's reader task sends a session/update notification or a
\* permission request on its AppState channel (an agent is started only by a
\* request to the running server).
TransportSend(kind) ==
    /\ app.pc = "serving"
    /\ app.sent < MaxItems
    /\ app' = [app EXCEPT !.channel[kind] = Append(@, app.sent + 1),
                          !.sent = @ + 1]
    /\ UNCHANGED not_app_vars

\* The draining task: rx.recv() and nothing else.
DrainRecv(kind) ==
    /\ app.rx[kind] = "drain"
    /\ app.channel[kind] # <<>>
    /\ app' = [app EXCEPT
          !.channel[kind] = Tail(@),
          !.consumed = Append(@, [kind |-> kind, item |-> Head(app.channel[kind]),
                                  by |-> "drain"])]
    /\ UNCHANGED not_app_vars

\* The server's forwarding task: rx.recv(), then the item is applied to the
\* session state and broadcast on event_tx.
ForwarderRecv(kind) ==
    /\ app.rx[kind] = "forwarder"
    /\ app.channel[kind] # <<>>
    /\ app' = [app EXCEPT
          !.channel[kind] = Tail(@),
          !.consumed = Append(@, [kind |-> kind, item |-> Head(app.channel[kind]),
                                  by |-> "forwarder"])]
    /\ UNCHANGED not_app_vars

AppInit ==
    /\ InitCore
    /\ InitAux("app")

AppNext ==
    \/ DrainNotifications
    \/ DrainPermissions
    \/ StartEventForwarding
    \/ \E kind \in ChannelKinds : TransportSend(kind)
    \/ \E kind \in ChannelKinds : DrainRecv(kind)
    \/ \E kind \in ChannelKinds : ForwarderRecv(kind)

AppSpec == AppInit /\ [][AppNext]_vars

\* ================================================================ claims
\* The step just taken made a mutating call, and which one.
Called == calls' # calls
TheCall == calls'[Len(calls')]

IsApply(c, kinds) == c.call = "apply_update" /\ c.update.sessionUpdate \in kinds
IsTextChunk(c, kinds) == IsApply(c, kinds) /\ c.update.content.type = "text"
AgentChunkKinds == {"agent_message_chunk", "agent_thought_chunk"}
UserChunkKinds == {"user_message_chunk"}
IsToolCallOf(c, tc) == IsApply(c, {"tool_call"}) /\ c.update.tool_call.tool_call_id = tc
IsToolCallUpdateOf(c, tc) ==
    IsApply(c, {"tool_call_update"}) /\ c.update.tool_call_update.tool_call_id = tc

LastIsMessageOf(items, role) ==
    /\ Len(items) > 0
    /\ IsMessage(Last(items))
    /\ Last(items).message.role = role

\* The same chat item (a message by its id, a tool call by its tool_call_id),
\* whatever its content has become.
SameItem(a, b) ==
    /\ a.type = b.type
    /\ IF IsMessage(a) THEN a.message.id = b.message.id
       ELSE a.tool_call.tool_call_id = b.tool_call.tool_call_id

\* Every item of old is still at its position in new.
PrefixKept(old, new) ==
    /\ Len(new) >= Len(old)
    /\ \A i \in 1..Len(old) : SameItem(old[i], new[i])

\* Every item of old is at its position in new, unaltered.
PrefixUnaltered(old, new) ==
    /\ Len(new) >= Len(old)
    /\ \A i \in 1..Len(old) : new[i] = old[i]

\* ---------------------------------------------------------------- C1
\* C1: in every reachable SessionState every entry tool_calls_map[tc] = i
\* names an existing chat item that is a ToolCall whose tool_call_id is tc.
C1_ToolIndexPointsAtItsToolCall ==
    \A tc \in DOMAIN session.tool_calls_map :
        LET i == session.tool_calls_map[tc] IN
        /\ i < Len(session.chat_items)
        /\ IsToolCall(session.chat_items[i + 1])
        /\ session.chat_items[i + 1].tool_call.tool_call_id = tc

\* ---------------------------------------------------------------- C2
\* C2 (as claimed): under every apply_update and add_user_message the earlier
\* chat items keep their positions and no entry of the tool index changes.
C2_Step_Original ==
    (Called /\ TheCall.call \in {"apply_update", "add_user_message"}) =>
        /\ PrefixKept(session.chat_items, session'.chat_items)
        /\ \A tc \in DOMAIN session.tool_calls_map :
              /\ tc \in DOMAIN session'.tool_calls_map
              /\ session'.tool_calls_map[tc] = session.tool_calls_map[tc]
C2_IndexNeverChanges == [][C2_Step_Original]_vars

\* C2 (amended): under every apply_update and add_user_message the earlier
\* chat items keep their positions, and the position recorded for a
\* tool_call_id changes only when a ToolCall event carrying that same id
\* arrives, which re-points the entry to the item appended for it.
C2_Step_Amended ==
    (Called /\ TheCall.call \in {"apply_update", "add_user_message"}) =>
        /\ PrefixKept(session.chat_items, session'.chat_items)
        /\ \A tc \in DOMAIN session.tool_calls_map :
              /\ tc \in DOMAIN session'.tool_calls_map
              /\ IF IsToolCallOf(TheCall, tc)
                 THEN session'.tool_calls_map[tc] = Len(session.chat_items)
                 ELSE session'.tool_calls_map[tc] = session.tool_calls_map[tc]
C2_IndexChangesOnlyOnRepeatedToolCall == [][C2_Step_Amended]_vars

\* A tool call t1 at position 0 has seen a user message and another tool
\* call arrive after it and is still recorded at position 0.
C2_Witness ==
    /\ Len(calls) = 3
    /\ IsToolCallOf(calls[1], "t1")
    /\ calls[2].call = "add_user_message"
    /\ IsToolCallOf(calls[3], "t2")
    /\ session.tool_calls_map["t1"] = 0
    /\ Len(session.chat_items) = 3

\* ---------------------------------------------------------------- C3
\* C3: an agent message chunk (or thought chunk) with text is appended to the
\* last item when that is an assistant Message (no item added, delta
\* MessageChunk{text}); otherwise exactly one assistant Message with that text
\* is appended (delta MessageAdded). Chunks "A", "B" on an empty session give
\* one assistant Message "AB", the second delta being MessageChunk.
C3_Step ==
    (Called /\ IsTextChunk(TheCall, AgentChunkKinds)) =>
        LET text == TheCall.update.content.text
            old == session.chat_items
            new == session'.chat_items
        IN IF LastIsMessageOf(old, "assistant")
           THEN /\ Len(new) = Len(old)
                /\ PrefixUnaltered(SubSeq(old, 1, Len(old) - 1), new)
                /\ SameItem(Last(old), Last(new))
                /\ Last(new).message.role = "assistant"
                /\ Last(new).message.content = Last(old).message.content \o text
                /\ last_delta'.updateType = "message_chunk"
                /\ last_delta'.content = text
           ELSE /\ Len(new) = Len(old) + 1
                /\ PrefixUnaltered(old, new)
                /\ IsMessage(Last(new))
                /\ Last(new).message.role = "assistant"
                /\ Last(new).message.content = text
                /\ last_delta'.updateType = "message_added"
                /\ last_delta'.message = Last(new).message

C3_Scenario ==
    /\ (Len(calls) = 1 /\ IsTextChunk(calls[1], {"agent_message_chunk"})) =>
          last_delta.updateType = "message_added"
    /\ (/\ Len(calls) = 2
        /\ IsTextChunk(calls[1], {"agent_message_chunk"})
        /\ IsTextChunk(calls[2], {"agent_message_chunk"})) =>
          /\ Len(session.chat_items) = 1
          /\ LastIsMessageOf(session.chat_items, "assistant")
          /\ session.chat_items[1].message.content =
                calls[1].update.content.text \o calls[2].update.content.text
          /\ last_delta.updateType = "message_chunk"

C3_AgentChunkMerge == []C3_Scenario /\ [][C3_Step]_vars

C3_Witness ==
    /\ Len(calls) = 2
    /\ IsTextChunk(calls[1], {"agent_message_chunk"})
    /\ IsTextChunk(calls[2], {"agent_message_chunk"})
    /\ Len(session.chat_items) = 1
    /\ session.chat_items[1].message.content = <<"A", "B">>
    /\ last_delta = MessageChunk(<<"B">>)

\* ---------------------------------------------------------------- C4
\* C4: whether a text chunk of role R is merged depends only on the last chat
\* item being a Message of role R: when it is not (a tool call or a message
\* of the other role came in between, or the session is empty) a new Message
\* is appended and nothing before it is touched, so chunk A, ToolCall t1,
\* chunk B gives exactly Message(A), ToolCall(t1), Message(B).
ChunkRole(c) == IF IsTextChunk(c, UserChunkKinds) THEN "user" ELSE "assistant"

C4_Step ==
    (Called /\ IsTextChunk(TheCall, AgentChunkKinds \cup UserChunkKinds)) =>
        LET role == ChunkRole(TheCall)
            old == session.chat_items
            new == session'.chat_items
        IN IF LastIsMessageOf(old, role)
           THEN Len(new) = Len(old)
           ELSE /\ Len(new) = Len(old) + 1
                /\ PrefixUnaltered(old, new)
                /\ LastIsMessageOf(new, role)
                /\ Last(new).message.content = TheCall.update.content.text

C4_Scenario ==
    (/\ Len(calls) = 3
     /\ IsTextChunk(calls[1], AgentChunkKinds \cup UserChunkKinds)
     /\ \/ IsApply(calls[2], {"tool_call"})
        \/ /\ IsTextChunk(calls[2], AgentChunkKinds \cup UserChunkKinds)
           /\ ChunkRole(calls[2]) # ChunkRole(calls[1])
     /\ IsTextChunk(calls[3], AgentChunkKinds \cup UserChunkKinds)
     /\ ChunkRole(calls[3]) = ChunkRole(calls[1])) =>
        /\ Len(session.chat_items) = 3
        /\ IsMessage(session.chat_items[1])
        /\ session.chat_items[1].message.role = ChunkRole(calls[1])
        /\ session.chat_items[1].message.content = calls[1].update.content.text
        /\ IF IsApply(calls[2], {"tool_call"})
           THEN /\ IsToolCall(session.chat_items[2])
                /\ session.chat_items[2].tool_call = calls[2].update.tool_call
           ELSE /\ IsMessage(session.chat_items[2])
                /\ session.chat_items[2].message.role = ChunkRole(calls[2])
                /\ session.chat_items[2].message.content = calls[2].update.content.text
        /\ IsMessage(session.chat_items[3])
        /\ session.chat_items[3].message.role = ChunkRole(calls[3])
        /\ session.chat_items[3].message.content = calls[3].update.content.text

C4_NoMergeAcrossOtherItems == []C4_Scenario /\ [][C4_Step]_vars

C4_Witness ==
    /\ Len(calls) = 3
    /\ IsTextChunk(calls[1], {"agent_message_chunk"})
    /\ IsToolCallOf(calls[2], "t1")
    /\ IsTextChunk(calls[3], {"agent_message_chunk"})
    /\ Len(session.chat_items) = 3
    /\ IsToolCall(session.chat_items[2])
    /\ session.chat_items[1].message.content = <<"A">>
    /\ session.chat_items[3].message.content = <<"B">>

\* ---------------------------------------------------------------- C5
\* The calls are a stream of user text chunks and add_user_message injections.
IsUserStream(cs) ==
    \A i \in 1..Len(cs) :
        cs[i].call = "add_user_message" \/ IsTextChunk(cs[i], UserChunkKinds)
ArrivedText(c) == IF c.call = "add_user_message" THEN c.content ELSE c.update.content.text

RECURSIVE Flatten(_)
Flatten(texts) == IF texts = <<>> THEN <<>> ELSE Head(texts) \o Flatten(Tail(texts))

Contents(items) == [i \in 1..Len(items) |-> items[i].message.content]
AllUserMessages(items) ==
    \A i \in 1..Len(items) : IsMessage(items[i]) /\ items[i].message.role = "user"

\* The message texts the claim expects: an injection is an item of its own,
\* and a chunk is merged only into a message that a chunk opened or extended.
RECURSIVE MergedAcrossChunksOnly(_, _, _)
MergedAcrossChunksOnly(cs, i, acc) ==
    IF i > Len(cs) THEN acc
    ELSE IF cs[i].call # "add_user_message" /\ i > 1 /\ cs[i - 1].call # "add_user_message"
    THEN MergedAcrossChunksOnly(cs, i + 1, [acc EXCEPT ![Len(acc)] = @ \o ArrivedText(cs[i])])
    ELSE MergedAcrossChunksOnly(cs, i + 1, Append(acc, ArrivedText(cs[i])))

\* The message texts under the rule "a chunk extends the last item whenever it
\* is a same-role Message": an injection opens an item, a chunk extends the
\* item before it whoever opened it.
RECURSIVE MergedIntoLastMessage(_, _, _)
MergedIntoLastMessage(cs, i, acc) ==
    IF i > Len(cs) THEN acc
    ELSE IF cs[i].call # "add_user_message" /\ acc # <<>>
    THEN MergedIntoLastMessage(cs, i + 1, [acc EXCEPT ![Len(acc)] = @ \o ArrivedText(cs[i])])
    ELSE MergedIntoLastMessage(cs, i + 1, Append(acc, ArrivedText(cs[i])))

\* C5 (as claimed): after user chunks interleaved with add_user_message
\* injections the texts are in arrival order, an injection is a chat item of
\* its own and text is merged between consecutive chunks only.
C5_InjectionIsItsOwnItem ==
    IsUserStream(calls) =>
        /\ AllUserMessages(session.chat_items)
        /\ Contents(session.chat_items) = MergedAcrossChunksOnly(calls, 1, <<>>)

\* C5 (amended): after user chunks interleaved with add_user_message
\* injections the texts are in arrival order; every injection opens a new chat
\* item, and a chunk is appended to the last item whenever there is one - also
\* when an injection created it - so text is merged across consecutive chunks
\* and from an injection into the chunks that directly follow it.
C5_ArrivalOrderChunksExtendLastMessage ==
    IsUserStream(calls) =>
        /\ AllUserMessages(session.chat_items)
        /\ Contents(session.chat_items) = MergedIntoLastMessage(calls, 1, <<>>)
        /\ Flatten(Contents(session.chat_items)) =
              Flatten([i \in 1..Len(calls) |-> ArrivedText(calls[i])])

\* An injected "A" followed by a chunk "B": one user message "AB".
C5_Witness ==
    /\ Len(calls) = 2
    /\ calls[1].call = "add_user_message"
    /\ IsTextChunk(calls[2], UserChunkKinds)
    /\ Len(session.chat_items) = 1
    /\ session.chat_items[1].message.content = <<"A", "B">>

\* ---------------------------------------------------------------- C6
ToolCallFields == {"kind", "status", "raw_input", "raw_output", "content", "locations"}

\* C6: a ToolCallUpdate u for an id in the tool index overwrites exactly the
\* non-null fields of u in the stored ToolCall of that id, leaves its other
\* fields, its position and every other item unchanged, adds no item and
\* returns ToolCallUpdated with the whole merged ToolCall.
C6_Step ==
    (/\ Called
     /\ IsApply(TheCall, {"tool_call_update"})
     /\ TheCall.update.tool_call_update.tool_call_id \in DOMAIN session.tool_calls_map) =>
        LET u == TheCall.update.tool_call_update
            idx == session.tool_calls_map[u.tool_call_id]
            old == session.chat_items
            new == session'.chat_items
        IN /\ idx < Len(old)
           /\ IsToolCall(old[idx + 1])
           /\ old[idx + 1].tool_call.tool_call_id = u.tool_call_id
           /\ Len(new) = Len(old)
           /\ \A i \in 1..Len(old) : i # idx + 1 => new[i] = old[i]
           /\ IsToolCall(new[idx + 1])
           /\ new[idx + 1].tool_call.tool_call_id = u.tool_call_id
           /\ new[idx + 1].tool_call.title =
                 IF IsSome(u.title) THEN Unwrap(u.title) ELSE old[idx + 1].tool_call.title
           /\ \A f \in ToolCallFields :
                 new[idx + 1].tool_call[f] =
                    IF IsSome(u[f]) THEN u[f] ELSE old[idx + 1].tool_call[f]
           /\ session'.tool_calls_map = session.tool_calls_map
           /\ last_delta'.updateType = "tool_call_updated"
           /\ last_delta'.tool_call = new[idx + 1].tool_call
C6_UpdateOverlaysIndexedToolCall == [][C6_Step]_vars

\* ---------------------------------------------------------------- C7
HistoryHasToolCall(items, tc) ==
    \E k \in 1..Len(items) : IsToolCall(items[k]) /\ items[k].tool_call.tool_call_id = tc

NoPrecedingToolCall(cs, tc) ==
    \A i \in 1..Len(cs) :
        /\ ~IsToolCallOf(cs[i], tc)
        /\ ~(cs[i].call = "load_history" /\ HistoryHasToolCall(cs[i].items, tc))

\* C7: a ToolCallUpdate whose tool_call_id no earlier ToolCall event (and no
\* loaded history item) carries creates and alters no chat item (nor the tool
\* index, plan, modes or commands), returns Noop, and the manager hands
\* nothing to the broadcast channel. (updated_at is refreshed all the same.)
C7_Step ==
    (/\ Called
     /\ IsApply(TheCall, {"tool_call_update"})
     /\ NoPrecedingToolCall(calls, TheCall.update.tool_call_update.tool_call_id)) =>
        /\ session'.chat_items = session.chat_items
        /\ session'.tool_calls_map = session.tool_calls_map
        /\ session'.plan = session.plan
        /\ session'.modes = session.modes
        /\ session'.available_commands = session.available_commands
        /\ last_delta'.updateType = "noop"
        /\ last_sent' = None
AsUpdate(item) ==
    IF IsMessage(item)
    THEN [sessionUpdate |-> IF item.message.role = "assistant"
                               THEN "agent_message_chunk" ELSE "user_message_chunk",
          content |-> TextBlock(item.message.content)]
    ELSE [sessionUpdate |-> "tool_call", tool_call |-> item.tool_call]

\* The concatenated stream: the history items as events, then the live calls.
ConcatenatedStream(cs) ==
    [k \in 1..Len(cs[1].items) |-> [call |-> "apply_update", update |-> AsUpdate(cs[1].items[k])]]
        \o Tail(cs)

\* A single fold of a stream of calls over a SessionState.
RECURSIVE FoldCalls(_, _, _)
FoldCalls(s, cs, i) ==
    IF i > Len(cs) THEN s
    ELSE FoldCalls(IF cs[i].call = "apply_update"
                      THEN apply_update(s, cs[i].update, i).state
                      ELSE add_user_message(s, cs[i].content, cs[i].message_id, i).state,
                   cs, i + 1)

\* The same chat items (up to generated ids and timestamps) and tool index.
SameChatAndIndex(a, b) ==
    /\ Len(a.chat_items) = Len(b.chat_items)
    /\ \A i \in 1..Len(a.chat_items) :
          /\ a.chat_items[i].type = b.chat_items[i].type
          /\ IF IsMessage(a.chat_items[i])
             THEN /\ a.chat_items[i].message.role = b.chat_items[i].message.role
                  /\ a.chat_items[i].message.content = b.chat_items[i].message.content
             ELSE a.chat_items[i].tool_call = b.chat_items[i].tool_call
    /\ a.tool_calls_map = b.tool_calls_map

\* load_history was the first call on the session and the only one.
HistoryThenLive(cs) ==
    /\ Len(cs) >= 1
    /\ cs[1].call = "load_history"
    /\ \A i \in 2..Len(cs) : cs[i].call # "load_history"

NoAdjacentSameRoleMessages(items) ==
    \A i \in 1..(Len(items) - 1) :
        ~(/\ IsMessage(items[i])
          /\ IsMessage(items[i + 1])
          /\ items[i].message.role = items[i + 1].message.role)

\* C8 (as claimed): load_history(items) followed by live updates gives the
\* chat items and tool index of a single fold, from the empty session, of the
\* history items followed by the same live updates.
C8_HistoryEqualsFold ==
    HistoryThenLive(calls) =>
        SameChatAndIndex(session,
                         FoldCalls(NewSessionState(None, 0), ConcatenatedStream(calls), 1))

\* C8 (amended): the same, for a history in which no two adjacent items are
\* Messages of the same role (the fold would merge those into one Message,
\* load_history keeps them apart).
C8_HistoryEqualsFoldUnlessAdjacentMessages ==
    (HistoryThenLive(calls) /\ NoAdjacentSameRoleMessages(calls[1].items)) =>
        SameChatAndIndex(session,
                         FoldCalls(NewSessionState(None, 0), ConcatenatedStream(calls), 1))

\* History <<user "A", ToolCall t1>>, then a live chunk and a live update of
\* the historical tool call.
C8_Witness ==
    /\ Len(calls) = 3
    /\ calls[1].call = "load_history"
    /\ Len(calls[1].items) = 2
    /\ HistoryHasToolCall(calls[1].items, "t1")
    /\ IsTextChunk(calls[2], AgentChunkKinds)
    /\ IsToolCallUpdateOf(calls[3], "t1")
    /\ Len(session.chat_items) = 3
    /\ last_delta.updateType = "tool_call_updated"

\* ---------------------------------------------------------------- C9
\* The request the agent sent about a tool call, and the responses written
\* by whoever was answering the request about that tool call.
ResponsesTo(j) ==
    {i \in 1..Len(agent_stdin) : agent_stdin[i].tool_call_id = agent_requests[j].tool_call_id}

\* C9: every response written to the agent for a session/request_permission
\* request, by dangerous-mode auto-approval or by a client's
\* respond_permission, carries the id the agent gave the request: the same
\* JSON text, hence the same shape (string or number) and value.
C9_ResponseCarriesRequestId ==
    \A j \in 1..Len(agent_requests) : \A i \in ResponsesTo(j) :
        /\ agent_stdin[i].line.id = to_string(agent_requests[j].id)
        /\ from_str(agent_stdin[i].line.id) = agent_requests[j].id

\* A string id answered by a client and a number id answered by auto-approval.
C9_Witness ==
    \E j1, j2 \in 1..Len(agent_requests) :
        /\ agent_requests[j1].id.json = "string"
        /\ agent_requests[j2].id.json = "number"
        /\ \E i \in ResponsesTo(j1) : agent_stdin[i].by = "client"
        /\ \E i \in ResponsesTo(j2) : agent_stdin[i].by = "auto"

\* ---------------------------------------------------------------- C10
Answered(request_id) ==
    \E i \in 1..Len(agent_stdin) : from_str(agent_stdin[i].line.id) = request_id

\* The requests the permission task has taken off the channel.
Routed == SubSeq(agent_requests, 1, Len(agent_requests) - Len(permission_rx))

\* C10: a session's pending_permission, when set, is a request still waiting
\* for its answer, and every routed request of the session that has not been
\* answered is the one in pending_permission (so at most one is outstanding).
C10_PendingIsTheOutstandingRequest ==
    \A s \in SessionIds :
        /\ IsSome(pending_permission[s]) =>
               ~Answered(Unwrap(pending_permission[s]).request_id)
        /\ \A j \in 1..Len(Routed) :
               (Routed[j].session_id = s /\ ~Answered(Routed[j].id)) =>
                   /\ IsSome(pending_permission[s])
                   /\ Unwrap(pending_permission[s]).request_id = Routed[j].id

\* ---------------------------------------------------------------- C11
\* The step just taken was a client's respond_permission call that failed.
RespondFailed ==
    /\ respond_results' # respond_results
    /\ respond_results'[Len(respond_results')] \in {"NotConnected", "ChannelClosed"}

C11_Step ==
    RespondFailed =>
        \A s \in SessionIds :
            IsSome(pending_permission[s]) => pending_permission'[s] = pending_permission[s]

\* C11: a respond_permission call that fails to hand the response to the
\* agent (NotConnected or ChannelClosed) leaves every session's
\* pending_permission as it was, so the request can be answered by a retry.
C11_FailedRespondKeepsPending == [][C11_Step]_vars

\* ---------------------------------------------------------------- C12
\* The step just taken was an iteration of the permission task on a request
\* of a session in dangerous mode that offers an allow option.
AutoApprovable ==
    /\ permission_rx # <<>>
    /\ permission_rx' = Tail(permission_rx)
    /\ dangerous_mode[Head(permission_rx).session_id]
    /\ \E i \in 1..Len(Head(permission_rx).options) :
           Head(permission_rx).options[i].kind \in {"allow_once", "allow_always"}

\* The option_id of the first allow option of the list as received.
FirstAllowOptionId(options) ==
    LET i == CHOOSE k \in 1..Len(options) :
                 /\ options[k].kind \in {"allow_once", "allow_always"}
                 /\ \A j \in 1..(k - 1) : options[j].kind \notin {"allow_once", "allow_always"}
    IN options[i].option_id

\* The response of the step: one more line on the agent's stdin, for request.
AutoAnswered(request) ==
    /\ Len(agent_stdin') = Len(agent_stdin) + 1
    /\ SubSeq(agent_stdin', 1, Len(agent_stdin)) = agent_stdin
    /\ LET w == agent_stdin'[Len(agent_stdin')]
       IN /\ w.line.id = to_string(request.request_id)
          /\ w.line.result.outcome = Selected(FirstAllowOptionId(request.options))

C12_Step_Original ==
    AutoApprovable =>
        LET request == Head(permission_rx)
        IN /\ AutoAnswered(request)
           /\ events' = events
           /\ pending_permission'[request.session_id] = None

C12_Step_Amended ==
    AutoApprovable =>
        LET request == Head(permission_rx)
        IN /\ IF agent_client = Some("open")
              THEN AutoAnswered(request)
              ELSE agent_stdin' = agent_stdin
           /\ events' = events
           /\ pending_permission' = pending_permission
           /\ global_pending_permission' = global_pending_permission

ExpectedResult(line) ==
    IF "error" \in DOMAIN line.body
    THEN [err |-> "Rpc", code |-> line.body.error.code,
          message |-> line.body.error.message, data |-> line.body.error.data]
    ELSE [ok |-> line.body.result]

\* C13: under every interleaving of send_request calls and response lines,
\* the calls get distinct ids, a call's slot is completed at most once and
\* only by a response line whose id is the number the call was assigned,
\* with Ok(result or null) or Err(Rpc) as the line says, no line completes
\* two slots, and a call that returns a response returns the one of its id.
C13_OnlyMatchingResponseCompletes ==
    /\ \A s1, s2 \in 1..Len(rpc_slots) :
           s1 # s2 => rpc_slots[s1].id # rpc_slots[s2].id
    /\ \A s \in 1..Len(rpc_slots) :
           /\ Len(rpc_slots[s].sent) <= 1
           /\ \A k \in 1..Len(rpc_slots[s].sent) :
                  LET c == rpc_slots[s].sent[k]
                  IN /\ rpc_lines[c.line].id = to_string(JNumber(rpc_slots[s].id))
                     /\ c.result = ExpectedResult(rpc_lines[c.line])
    /\ \A s1, s2 \in 1..Len(rpc_slots) :
           \A k1 \in 1..Len(rpc_slots[s1].sent), k2 \in 1..Len(rpc_slots[s2].sent) :
               rpc_slots[s1].sent[k1].line = rpc_slots[s2].sent[k2].line => s1 = s2
    /\ \A i \in 1..Len(rpc_returned) :
           "line" \in DOMAIN rpc_returned[i] =>
               /\ from_str(rpc_lines[rpc_returned[i].line].id) = JNumber(rpc_returned[i].id)
               /\ rpc_returned[i].result = ExpectedResult(rpc_lines[rpc_returned[i].line])

\* Two concurrent calls answered in the opposite order, one with an error.
C13_Witness ==
    /\ Len(rpc_returned) = 2
    /\ rpc_returned[1].id = 2
    /\ rpc_returned[2].id = 1
    /\ rpc_returned[1].task # rpc_returned[2].task
    /\ "ok" \in DOMAIN rpc_returned[1].result
    /\ "err" \in DOMAIN rpc_returned[2].result /\ rpc_returned[2].result.err = "Rpc"
    /\ rpc_returned[1].line < rpc_returned[2].line

\* C14: the deltas on the session's broadcast channel are in the order in
\* which they were folded into the state, also when apply_update (the
\* notification task) and add_user_message (a prompt request) run
\* concurrently: a delta folded earlier is never sent after one folded later.
C14_ChannelOrderIsFoldOrder ==
    \A i, j \in 1..Len(session_tx) :
        i < j => session_tx[i].fold < session_tx[j].fold

\* The delta of the k-th fold into the session, recomputed from the log of
\* the manager's calls.
RECURSIVE FoldResult(_)
FoldResult(k) ==
    IF k = 0 THEN [state |-> NewSessionState(None, 0), delta |-> Noop]
    ELSE LET before == FoldResult(k - 1).state
             r == IF calls[k].call = "apply_update"
                  THEN apply_update(before, calls[k].update, Now)
                  ELSE add_user_message(before, calls[k].content, calls[k].message_id, Now)
         IN [state |-> r.state, delta |-> r.delta]

FoldInFlight(k) ==
    \E t \in {"forwarder", "prompt"} :
        mgr_task[t].pc = "folded" /\ mgr_task[t].fold = k

InSnapshot(client_id, k) == k <= receivers[client_id].folded

OnReceiver(client_id, k) ==
    \E i \in (receivers[client_id].cursor + 1)..Len(session_tx) : session_tx[i].fold = k

\* C15: subscribe is atomic with respect to updates: every delta whose call
\* has completed is either contained in the snapshot subscribe returned or
\* delivered through the receiver it returned, never missed by both and
\* never seen by both.
C15_SubscribeIsAtomic ==
    \A client_id \in DOMAIN receivers :
        \A k \in 1..Len(calls) :
            (FoldResult(k).delta # Noop /\ ~FoldInFlight(k))
                => (InSnapshot(client_id, k) # OnReceiver(client_id, k))

\* The session/state_update notification on event_tx that carries a delta.
CarriesDelta(event, delta) ==
    /\ event.method = "session/state_update"
    /\ event.params.update.updateType = delta.updateType
    /\ delta.updateType = "message_added"
          => event.params.update.message = Some(delta.message)

CallInFlight(k) ==
    \E t \in {"forwarder", "prompt"} :
        mgr_task[t].pc \in {"folded", "broadcast"} /\ mgr_task[t].fold = k

\* C16: every non-Noop delta sent to a session's subscribers reaches the
\* subscribed clients as a session/state_update notification once the call
\* that produced it has completed, and a Noop delta never does.
C16_DeltasReachSubscribersAsStateUpdates ==
    /\ \A i \in 1..Len(session_tx) :
          (subscribers # {} /\ ~CallInFlight(session_tx[i].fold))
              => \E n \in 1..Len(events) : CarriesDelta(events[n], session_tx[i].delta)
    /\ \A n \in 1..Len(events) :
          events[n].method = "session/state_update"
              => events[n].params.update.updateType # "noop"

SubscribeInFlight(client_id) ==
    /\ mgr_task["subscribe"].pc # "idle"
    /\ mgr_task["subscribe"].client_id = client_id

\* C17: once a client's WebSocket has disconnected, its cleanup has run and
\* every request task it spawned has finished (an in-flight subscribe_session
\* included), the client is subscribed to no session.
C17_DisconnectedClientIsUnsubscribed ==
    \A client_id \in ManagerClients :
        (~client_state[client_id].connected /\ ~SubscribeInFlight(client_id))
            => client_id \notin subscribers

ColdSubscribed ==
    \E client_id \in DOMAIN receivers : receivers[client_id].cold

\* A full_state notification whose chat_items start with the items of the
\* history file (live updates folded after the load may follow or extend them).
HoldsHistory(event) ==
    /\ event.method = "session/state_update"
    /\ event.params.update.updateType = "full_state"
    /\ LET items == event.params.update.state.chat_items
       IN /\ Len(items) >= Len(session_file)
          /\ \A i \in 1..Len(session_file) : SameItem(items[i], session_file[i])

\* C18: a cold subscribe (no live state, non-empty history on disk) returns
\* a snapshot with empty chat_items, and afterwards a session/state_update
\* full_state notification is eventually broadcast whose chat_items hold
\* the items of the history file.
C18_ColdSubscribeThenFullState ==
    /\ [](\A client_id \in DOMAIN receivers :
             receivers[client_id].cold
                 => receivers[client_id].snapshot.chat_items = <<>>)
    /\ ColdSubscribed ~> (\E n \in 1..Len(events) : HoldsHistory(events[n]))

C18_Witness ==
    /\ \E client_id \in DOMAIN receivers :
          receivers[client_id].cold /\ receivers[client_id].snapshot.chat_items = <<>>
    /\ \E n \in 1..Len(events) :
          /\ HoldsHistory(events[n])
          /\ Len(events[n].params.update.state.chat_items) > Len(session_file)

\* The chat items of a state that are the user message of the prompt: user
\* messages with the prompt's content that do not come from the history file.
PromptCopies(state, content) ==
    { i \in 1..Len(state.chat_items) :
        /\ IsMessage(state.chat_items[i])
        /\ state.chat_items[i].message.role = "user"
        /\ state.chat_items[i].message.content = content
        /\ state.chat_items[i].message.id[1] # "hist" }

PromptResumed ==
    /\ mgr_task["prompt"].pc = "returned"
    /\ IsSome(mgr_task["prompt"].resumed)

\* C19: when send_prompt returns after an auto-resume (the first prompt failed
\* with "session not found" in the error's message or data.details), the
\* prompt was sent exactly twice, the second time for the resumed session,
\* and the user message is in the resumed session's chat_items exactly once,
\* also when the resumed session has the id of the stale one.
C19_ResumedPromptHasOneUserMessage ==
    PromptResumed =>
        LET resumed == StateOf(Unwrap(mgr_task["prompt"].resumed))
        IN /\ mgr_task["prompt"].prompts = 2
           /\ IsSome(resumed)
           /\ Cardinality(PromptCopies(Unwrap(resumed), mgr_task["prompt"].content)) = 1

C19_Witness ==
    /\ PromptResumed
    /\ mgr_task["prompt"].resumed = Some("s1")
    /\ \E k \in 1..Len(calls) : calls[k].call = "add_user_message"
    /\ Len(session.chat_items) > 1
    /\ Cardinality(PromptCopies(session, mgr_task["prompt"].content)) = 1

\* C20: the gateway method connect is a no-op: a call of it starts no agent
\* process and leaves the stored agent client as it is; only the lazy start
\* of the operations that need the agent does.
C20_ConnectIsNoOp ==
    [][(\E started \in BOOLEAN : ConnectMethod(started))
          => (agent_spawns' = agent_spawns /\ agent_client' = agent_client)]_vars

\* C21: a respond_permission issued while a send_prompt is in flight is
\* eventually written to the agent that asked, whatever other gateway
\* requests (connect and disconnect included) are issued in between.
C21_RespondPermissionReachesAgent ==
    (mgr_task["respond"].pc # "idle")
        ~> (\E i \in 1..Len(agent_stdin) : agent_stdin[i].agent = 1)

\* ---------------------------------------------------------------- C22
\* canonical(p): what cwd_to_path_key converts.
CanonicalOf(c) == resolved(c.cwd, c.canonical)
HasChar(s, ch) == \E i \in 1..Len(s) : s[i] = ch

\* C22 as stated: the round trip gives back canonical(p) for every path
\* without '_'.
C22_RoundTripWithoutUnderscore ==
    (path_call.pc = "back" /\ ~HasChar(CanonicalOf(path_call), "_"))
        => path_call.back = CanonicalOf(path_call)

\* C22 amended: the key is the canonical path with every '/', '_' (and so
\* every '-') as '-'; the way back turns every '-' into '/'; the round trip
\* gives back canonical(p) exactly when it holds neither '_' nor '-'.
C22_RoundTripWithoutUnderscoreOrDash ==
    LET p == CanonicalOf(path_call)
        k == path_call.path_key
        b == path_call.back
    IN  /\ path_call.pc \in {"keyed", "back"} =>
              /\ Len(k) = Len(p)
              /\ \A i \in 1..Len(p) :
                    k[i] = IF p[i] \in {"/", "_", "-"} THEN "-" ELSE p[i]
        /\ path_call.pc = "back" =>
              /\ Len(b) = Len(k)
              /\ \A i \in 1..Len(k) : b[i] = IF k[i] = "-" THEN "/" ELSE k[i]
              /\ (b = p) <=> (~HasChar(p, "_") /\ ~HasChar(p, "-"))

\* A path with an '_' and one without any special character went there and
\* back.
C22_Witness ==
    /\ path_call.pc = "back"
    /\ HasChar(CanonicalOf(path_call), "_")
    /\ HasChar(CanonicalOf(path_call), "a")
    /\ path_call.back # CanonicalOf(path_call)

\* ---------------------------------------------------------------- C23
\* C23: a terminal is in the map from create_terminal until kill_terminal or
\* the EOF of its child, and not afterwards.
C23_TerminalGoneAfterKillOrEof ==
    \A id \in DOMAIN pty :
        (id \in DOMAIN terminals) <=> (~pty[id].killed /\ pty[id].reader = "reading")

\* ---------------------------------------------------------------- C24
IsErrorResponse(r, code) == "error" \in DOMAIN r /\ r.error.code = code
ResponsesFor(n) == {i \in 1..Len(ws_tx) : ws_tx[i].frame = n}

\* While the connection is open every frame received is in exactly one of
\* two conditions: its task runs and nothing was written for it, or its task
\* has finished and one response was written.
AnsweredOnce ==
    ws_open =>
        \A n \in 1..ws_received :
            Cardinality(ResponsesFor(n)) =
                IF \E t \in ws_tasks : t.frame = n THEN 0 ELSE 1

\* The response a finished task wrote, against the frame's text and the
\* terminals there were when the task ran.
RightResponse(text, r, terms) ==
    IF ~text.valid \/ text.id = None \/ text.method = None
    THEN r.id = JNull /\ IsErrorResponse(r, -32700)
    ELSE /\ r.id = Unwrap(text.id)
         /\ LET method == Unwrap(text.method)
                bad_param == \/ text.params = None
                             \/ Unwrap(text.params).terminalId.json # "string"
                failure ==
                    \/ method \notin {"get_client_id", "kill_terminal"}
                    \/ method = "kill_terminal" /\ bad_param
                    \/ method = "kill_terminal" /\ ~bad_param
                        /\ Unwrap(text.params).terminalId.str \notin DOMAIN terms
            IN  IF failure THEN IsErrorResponse(r, -32603)
                ELSE "result" \in DOMAIN r /\ "error" \notin DOMAIN r

LastActivity(id) ==
    IF id \in DOMAIN active_sessions THEN active_sessions[id]
    ELSE projects_dir[id].last_activity
MessagesOf(id) == IF id \in DOMAIN projects_dir THEN projects_dir[id].message_count ELSE 0
Listed(keep_active) ==
    {id \in ListIds :
        /\ list_call.cwd = None \/ SessionCwd(id) = Unwrap(list_call.cwd)
        /\ \/ id \in DOMAIN active_sessions
           \/ id \in DOMAIN projects_dir /\ ~starts_with(id, "agent-")
        /\ MessagesOf(id) > 0 \/ (keep_active /\ id \in DOMAIN active_sessions)}

\* The response is the slice [offset, offset+limit) of the listed sessions by
\* last_activity descending, total their number, has_more offset+limit < total.
IsPageOf(listed) ==
    list_call.pc = "returned" =>
        LET r == Unwrap(list_call.response)
            n == Cardinality(listed)
            last == IF list_call.offset + list_call.limit < n
                    THEN list_call.offset + list_call.limit ELSE n
        IN  /\ r.total = n
            /\ r.has_more = (list_call.offset + list_call.limit < n)
            /\ Len(r.sessions) = (IF last > list_call.offset
                                   THEN last - list_call.offset ELSE 0)
            /\ \A i \in 1..Len(r.sessions) : r.sessions[i].id \in listed
            /\ \A i, j \in 1..Len(r.sessions) :
                  i < j => /\ r.sessions[i].id # r.sessions[j].id
                           /\ r.sessions[i].last_activity >= r.sessions[j].last_activity
            /\ \A id \in listed :
                  \/ \E i \in 1..Len(r.sessions) : r.sessions[i].id = id
                  \/ \A i \in 1..Len(r.sessions) :
                        \/ list_call.offset > 0
                           /\ r.sessions[i].last_activity <= LastActivity(id)
                        \/ r.has_more
                           /\ r.sessions[i].last_activity >= LastActivity(id)

\* C25 as stated: no session with zero messages is listed.
C25_ListIsPaginatedUnion == IsPageOf(Listed(FALSE))

\* C25 amended: list_sessions returns the slice [offset, offset+limit) of the
\* union of active and on-disk sessions by last_activity descending, without
\* on-disk agent sessions and without inactive sessions whose file holds no
\* message; active sessions are listed whatever their message count.
C25_ListKeepsActiveSessions == IsPageOf(Listed(TRUE))

\* The second page of a listing that holds an active session without
\* messages, while an agent session and an empty session file are on disk.
C25_Witness ==
    /\ list_call.pc = "returned"
    /\ list_call.offset = 1
    /\ Unwrap(list_call.response).total = 2
    /\ Len(Unwrap(list_call.response).sessions) = 1
    /\ \E id \in DOMAIN active_sessions :
          id \notin DOMAIN projects_dir /\ id \in Listed(TRUE)
    /\ <<"agent-", "1">> \in DOMAIN projects_dir \ DOMAIN active_sessions
    /\ \E id \in DOMAIN projects_dir \ DOMAIN active_sessions :
          projects_dir[id].message_count = 0

\* ---------------------------------------------------------------- C26
\* C26: add_user_message appends exactly one user Message at the end of
\* chat_items whatever the last item is, alters no earlier item, gives the
\* message the supplied id or else an id no message carries, and returns
\* MessageAdded with that message.
C26_Step ==
    (Called /\ TheCall.call = "add_user_message") =>
        LET old == session.chat_items
            new == session'.chat_items
        IN  /\ Len(new) = Len(old) + 1
            /\ PrefixUnaltered(old, new)
            /\ IsMessage(Last(new))
            /\ Last(new).message.role = "user"
            /\ Last(new).message.content = TheCall.content
            /\ IF IsSome(TheCall.message_id)
               THEN Last(new).message.id = Unwrap(TheCall.message_id)
               ELSE \A i \in 1..Len(old) :
                        IsMessage(old[i]) => old[i].message.id # Last(new).message.id
            /\ last_delta' = MessageAdded(Last(new).message)

C26_AddUserMessageAppends == [][C26_Step]_vars

\* Two injections in a row, the second with a supplied id: two user messages.
C26_Witness ==
    /\ Len(calls) = 2
    /\ calls[1].call = "add_user_message"
    /\ calls[2].call = "add_user_message"
    /\ IsSome(calls[2].message_id)
    /\ Len(session.chat_items) = 2
    /\ session.chat_items[1].message.role = "user"
    /\ session.chat_items[2].message.id = Unwrap(calls[2].message_id)
    /\ last_delta = MessageAdded(session.chat_items[2].message)

\* ---------------------------------------------------------------- C27
\* The step is a call that took its locks once and returned.
ReturnedAtOnce == sm_ops' # sm_ops /\ sm_call' = None
\* The step is the return of a call of one of these kinds on this session.
Returns(kinds, id) ==
    /\ ReturnedAtOnce \/ (sm_call # None /\ sm_call' = None)
    /\ Unwrap(sm_result').call \in kinds
    /\ Unwrap(sm_result').session_id = id

SessionUntouched(id) ==
    /\ get_state(states', id) = get_state(states, id)
    /\ (id \in DOMAIN subscriptions') = (id \in DOMAIN subscriptions)
    /\ id \in DOMAIN subscriptions => subscriptions'[id] = subscriptions[id]

\* C27: remove_session(id) leaves no state and no subscriber for id and does
\* not touch the other sessions; as long as id is not created again,
\* subscribe on it returns None and apply_update, add_user_message and
\* load_history on it change nothing and send nothing.
C27_Step ==
    \A id \in SessionIds :
        /\ (ReturnedAtOnce /\ Returns({"remove_session"}, id)) =>
              /\ ~has_session(states', id)
              /\ get_state(states', id) = None
              /\ subscriber_count(subscriptions', id) = 0
              /\ \A other \in SessionIds \ {id} : SessionUntouched(other)
        /\ (~has_session(states, id) /\ ~Returns({"create_session"}, id)) =>
              /\ ~has_session(states', id)
              /\ subscriber_count(subscriptions', id) = 0
              /\ id \notin DOMAIN subscriptions'
              /\ Returns({"subscribe"}, id) => Unwrap(sm_result').value = None
              /\ Returns({"apply_update", "add_user_message", "load_history"}, id) =>
                    states' = states /\ subscriptions' = subscriptions

C27_RemovedSessionIsGone == [][C27_Step]_vars

\* s1 was removed and an add_user_message on it has returned, while s2 is
\* still there with its subscriber.
C27_Witness ==
    /\ ~has_session(states, "s1")
    /\ sm_call = None
    /\ sm_result = Returned("add_user_message", "s1", None)
    /\ has_session(states, "s2")
    /\ subscriber_count(subscriptions, "s2") = 1

\* ---------------------------------------------------------------- C28
SubscribersOf(subs, id) == IF id \in DOMAIN subs THEN subs[id].subscribers ELSE {}

\* C28: subscriber_count(id) is the number of distinct clients subscribed to
\* id and not unsubscribed since: a successful subscribe adds the client to
\* that session only and counts it once however often it subscribes,
\* unsubscribe removes that client from that session only, unsubscribe_all
\* removes the client from every session, and nothing else changes a
\* subscriber set of a session that stays.
C28_Step ==
    LET old(id) == SubscribersOf(subscriptions, id)
        new(id) == SubscribersOf(subscriptions', id)
        call == Unwrap(sm_result').call
        on == Unwrap(sm_result').session_id
    IN  /\ \A id \in SessionIds :
              subscriber_count(subscriptions', id) = Cardinality(new(id))
        /\ IF sm_call # None /\ sm_call' = None /\ call = "subscribe"
              /\ Unwrap(sm_result').value # None
           THEN LET c == Unwrap(sm_call).client_id
                IN  /\ new(on) = old(on) \cup {c}
                    /\ subscriber_count(subscriptions', on) =
                          subscriber_count(subscriptions, on)
                              + (IF c \in old(on) THEN 0 ELSE 1)
                    /\ \A id \in SessionIds \ {on} : new(id) = old(id)
           ELSE IF ReturnedAtOnce /\ call = "unsubscribe"
           THEN /\ new(on) = old(on) \ {Unwrap(Unwrap(sm_result').value)}
                /\ \A id \in SessionIds \ {on} : new(id) = old(id)
           ELSE IF ReturnedAtOnce /\ call = "unsubscribe_all"
           THEN \A id \in SessionIds :
                    new(id) = old(id) \ {Unwrap(Unwrap(sm_result').value)}
           ELSE IF ReturnedAtOnce /\ call \in {"create_session", "remove_session"}
           THEN /\ new(on) = {}
                /\ \A id \in SessionIds \ {on} : new(id) = old(id)
           ELSE \A id \in SessionIds : new(id) = old(id)

C28_SubscriberCountIsDistinctClients == [][C28_Step]_vars

\* c1 and c2 subscribed to s1, c1 also to s2, then unsubscribe_all(c1): s1
\* is left with c2, s2 with nobody.
C28_Witness ==
    /\ sm_ops = 4
    /\ IsSome(sm_result)
    /\ Unwrap(sm_result).call = "unsubscribe_all"
    /\ Unwrap(sm_result).value = Some("c1")
    /\ SubscribersOf(subscriptions, "s1") = {"c2"}
    /\ subscriber_count(subscriptions, "s1") = 1
    /\ has_session(states, "s2")
    /\ subscriber_count(subscriptions, "s2") = 0

\* ---------------------------------------------------------------- C29
\* The session the agent's request with this id (as JSON text) was for.
SessionOfRequest(id_text) ==
    LET i == CHOOSE k \in 1..Len(agent_requests) :
                 to_string(agent_requests[k].id) = id_text
    IN  agent_requests[i].session_id

\* C29: a respond_permission call clears the pending permission on the
\* session, then sends the response with the agent's id, then broadcasts
\* permission/resolved; permission/resolved is broadcast by no other step and
\* only when the response was handed to the writer.
C29_Step ==
    LET responded == Len(respond_results') > Len(respond_results)
        was_resolved == /\ Len(events') > Len(events)
                    /\ Last(events').method = "permission/resolved"
    IN  /\ was_resolved => responded
        /\ responded => (was_resolved <=> Last(respond_results') = "Ok")
        /\ was_resolved =>
              /\ Len(agent_stdin') = Len(agent_stdin) + 1
              /\ Last(agent_stdin').by = "client"
              /\ Last(agent_stdin').line.id = Last(events').params.requestId
              /\ pending_permission'[SessionOfRequest(Last(events').params.requestId)]
                    = None

C29_RespondClearsSendsThenBroadcasts == [][C29_Step]_vars

\* ---------------------------------------------------------------- C30
\* The line is a JSON object that has the member.
HasMember(line, key) ==
    /\ line.text = "json"
    /\ line.value.json = "object"
    /\ IsSome(line.value.fields[key])

MemberOf(line, key) == Unwrap(line.value.fields[key])

\* The class of a line by the members present, in the order of priority.
ClassOf(line) ==
    IF HasMember(line, "id") /\ (HasMember(line, "result") \/ HasMember(line, "error"))
    THEN "response"
    ELSE IF HasMember(line, "id") /\ HasMember(line, "method") THEN "request"
    ELSE IF HasMember(line, "method") THEN "notification"
    ELSE "skipped"

\* C30: every line the reader takes leaves the loop running and draws no
\* reply; only a line with id and result or error (with or without method)
\* completes a pending request; only a line with id and method that is not a
\* response, with method session/request_permission, is forwarded as a
\* permission request; only a line with method and no id, with method
\* session/update, is forwarded as a notification; blank lines, lines that are
\* not JSON and all other lines change nothing; well-formed lines of the three
\* kinds are completed or forwarded.
C30_Step ==
    reader'.read > reader.read =>
      LET line == Unwrap(reader'.last)
          class == ClassOf(line)
          completed == \E k \in 1..Len(reader.slots) :
                           Len(reader'.slots[k]) > Len(reader.slots[k])
          forwarded_permission ==
              Len(reader'.permission_tx) > Len(reader.permission_tx)
          forwarded_update ==
              Len(reader'.notification_tx) > Len(reader.notification_tx)
          well_formed == HasMember(line, "jsonrpc")
      IN  /\ reader'.running
          /\ agent_stdin' = agent_stdin
          /\ rpc_written' = rpc_written
          /\ Len(reader'.slots) = Len(reader.slots)
          /\ completed <=> DOMAIN reader'.pending # DOMAIN reader.pending
          /\ completed => class = "response"
          /\ forwarded_permission =>
                /\ class = "request"
                /\ MemberOf(line, "method") = "session/request_permission"
                /\ reader'.permission_tx[Len(reader'.permission_tx)].request_id
                      = MemberOf(line, "id")
          /\ forwarded_update =>
                /\ class = "notification"
                /\ MemberOf(line, "method") = "session/update"
          /\ (/\ class = "response"
              /\ well_formed
              /\ MemberOf(line, "id").json = "number"
              /\ MemberOf(line, "id").n \in DOMAIN reader.pending)
             => /\ completed
                /\ MemberOf(line, "id").n \notin DOMAIN reader'.pending
                /\ LET slot == reader.pending[MemberOf(line, "id").n]
                       sent == reader'.slots[slot][Len(reader'.slots[slot])]
                   IN  ("err" \in DOMAIN sent) <=> HasMember(line, "error")
          /\ (/\ class = "request"
              /\ well_formed
              /\ MemberOf(line, "method") = "session/request_permission"
              /\ line.value.fields.params = Some(PermissionParamsJson))
             => forwarded_permission
          /\ (/\ class = "notification"
              /\ well_formed
              /\ MemberOf(line, "method") = "session/update"
              /\ line.value.fields.params = Some(SessionNotificationJson))
             => forwarded_update

C30_ReaderClassifiesByMembers == [][C30_Step]_vars

\* The first line had id 1, a result and also the method and parameters of a
\* permission request: it completed the pending request 1 and nothing was
\* forwarded; the loop still runs.
C30_Witness ==
    /\ reader.running
    /\ reader.read = 1
    /\ HasMember(Unwrap(reader.last), "jsonrpc")
    /\ HasMember(Unwrap(reader.last), "result")
    /\ HasMember(Unwrap(reader.last), "method")
    /\ MemberOf(Unwrap(reader.last), "method") = "session/request_permission"
    /\ Unwrap(reader.last).value.fields.params = Some(PermissionParamsJson)
    /\ Unwrap(reader.last).value.fields.id = Some(JNumber(1))
    /\ Len(reader.slots[1]) = 1
    /\ 1 \notin DOMAIN reader.pending
    /\ reader.permission_tx = <<>>

\* ---------------------------------------------------------------- C31
TimedOut(entry) == "err" \in DOMAIN entry.result /\ entry.result.err = "Timeout"

\* The slots of the calls that have returned Timeout.
TimedOutSlots ==
    { rpc_returned[i].slot : i \in {k \in 1..Len(rpc_returned) : TimedOut(rpc_returned[k])} }

\* Everything registered under another id is as it was.
OthersUntouched(id) ==
    /\ \A k \in DOMAIN pending_requests \ {id} :
           k \in DOMAIN pending_requests' /\ pending_requests'[k] = pending_requests[k]
    /\ \A s \in 1..Len(rpc_slots) :
           rpc_slots[s].id # id => rpc_slots'[s] = rpc_slots[s]

\* C31: a send_request call that times out returns Timeout and leaves its
\* slot in the pending-requests map; a response for its id that is read
\* later is returned by no call; neither the timeout nor the late response
\* completes, removes or changes anything registered under another id.
C31_Step ==
    LET returned == Len(rpc_returned') > Len(rpc_returned)
        entry == rpc_returned'[Len(rpc_returned')]
        read == Len(rpc_lines') > Len(rpc_lines)
        id == as_u64(from_str(rpc_lines'[Len(rpc_lines')].id))
    IN  /\ (returned /\ TimedOut(entry)) =>
              /\ entry.id \in DOMAIN pending_requests'
              /\ pending_requests' = pending_requests
              /\ rpc_slots' = rpc_slots
        /\ (/\ read
            /\ IsSome(id)
            /\ Unwrap(id) \in DOMAIN pending_requests
            /\ pending_requests[Unwrap(id)] \in TimedOutSlots) =>
              /\ rpc_returned' = rpc_returned
              /\ rpc_task' = rpc_task
              /\ OthersUntouched(Unwrap(id))
        /\ \A i \in 1..Len(rpc_returned') :
               "line" \in DOMAIN rpc_returned'[i] =>
                   rpc_returned'[i].slot \notin
                       { rpc_returned'[j].slot :
                           j \in {k \in 1..Len(rpc_returned') : TimedOut(rpc_returned'[k])} }

C31_TimeoutKeepsSlotLateResponseDropped == [][C31_Step]_vars

\* Call 1 timed out, call 2 is still waiting with its slot registered, and
\* the response for id 1 was read afterwards.
C31_Witness ==
    /\ \E i \in 1..Len(rpc_returned) :
           TimedOut(rpc_returned[i]) /\ rpc_returned[i].id = 1
    /\ \E n \in 1..Len(rpc_lines) : rpc_lines[n].id = to_string(JNumber(1))
    /\ \E s \in 1..Len(rpc_slots) : rpc_slots[s].id = 1 /\ rpc_slots[s].sent # <<>>
    /\ 2 \in DOMAIN pending_requests
    /\ \E t \in Tasks : rpc_task[t].pc = "waiting" /\ rpc_task[t].id = 2
    /\ rpc_slots[pending_requests[2]].sent = <<>>

\* ---------------------------------------------------------------- C32
\* The background task of a cold subscribe applies load_history in this step.
HistoryLoaded ==
    /\ mgr_task["loader"].pc = "spawned"
    /\ mgr_task'["loader"].pc = "loaded"

\* C32: when the history of a just-resumed session is loaded, no live
\* mutation has been applied to the session yet, and every chat item the
\* session holds is still held afterwards.
C32_Step ==
    HistoryLoaded =>
        /\ session.chat_items = <<>>
        /\ \A i \in 1..Len(session.chat_items) :
               \E j \in 1..Len(session'.chat_items) :
                   session'.chat_items[j] = session.chat_items[i]

C32_HistoryLoadedBeforeLiveMutation == [][C32_Step]_vars

\* ---------------------------------------------------------------- C33
\* The step applied an update of this kind.
Applied(kind) ==
    /\ Called
    /\ TheCall.call = "apply_update"
    /\ TheCall.update.sessionUpdate = kind

\* The fields of the session a whole-object update must leave alone, besides
\* its own.
ChatUntouched ==
    /\ session'.chat_items = session.chat_items
    /\ session'.tool_calls_map = session.tool_calls_map
    /\ session'.next_uuid = session.next_uuid
    /\ pending_permission' = pending_permission
    /\ global_pending_permission' = global_pending_permission

\* C33: apply_update(Plan) replaces plan, apply_update(AvailableCommandsUpdate)
\* replaces available_commands, apply_update(CurrentModeUpdate) changes
\* modes.current_mode_id only if modes is present and leaves absent modes
\* absent; each leaves the other two of these fields, chat_items, the tool
\* index and pending_permission as they were.
C33_Step ==
    /\ Applied("plan") =>
          /\ session'.plan = Some(TheCall.update.plan)
          /\ session'.available_commands = session.available_commands
          /\ session'.modes = session.modes
          /\ ChatUntouched
    /\ Applied("available_commands_update") =>
          /\ session'.available_commands = Some(TheCall.update.available_commands)
          /\ session'.plan = session.plan
          /\ session'.modes = session.modes
          /\ ChatUntouched
    /\ Applied("current_mode_update") =>
          /\ IF IsSome(session.modes)
             THEN /\ IsSome(session'.modes)
                  /\ Unwrap(session'.modes).current_mode_id
                        = TheCall.update.current_mode_id
                  /\ Unwrap(session'.modes).available_modes
                        = Unwrap(session.modes).available_modes
             ELSE session'.modes = None
          /\ session'.plan = session.plan
          /\ session'.available_commands = session.available_commands
          /\ ChatUntouched

C33_WholeObjectUpdatesTouchOwnField == [][C33_Step]_vars

\* A session that holds a tool call and has no modes took a plan and then a
\* mode update.
C33_Witness ==
    /\ session.plan = Some("P1")
    /\ session.modes = None
    /\ Len(session.chat_items) = 1
    /\ DOMAIN session.tool_calls_map # {}
    /\ Len(calls) = 3
    /\ calls[2].call = "apply_update"
    /\ calls[2].update.sessionUpdate = "plan"
    /\ calls[3].call = "apply_update"
    /\ calls[3].update.sessionUpdate = "current_mode_update"

\* ---------------------------------------------------------------- C34
\* The assistant entry of the file, and the items loaded from it.
TheAssistantEntry ==
    history.file[CHOOSE k \in 1..Len(history.file) :
                     /\ history.file[k].kind = "message"
                     /\ history.file[k].role = "assistant"]

IsAssistantItem(item) ==
    IsToolCall(item) \/ (IsMessage(item) /\ item.message.role = "assistant")

TextToken(text) == [token |-> "text", value |-> text]
ToolToken(id) == [token |-> "tool", value |-> <<id>>]

\* The blocks of a content array that carry text or a tool use, in the order
\* of the array.
RECURSIVE Encountered(_)
Encountered(blocks) ==
    IF blocks = <<>> THEN <<>>
    ELSE LET block == Head(blocks)
             rest == Encountered(Tail(blocks))
         IN  IF block.type = "tool_use" THEN <<ToolToken(block.id)>> \o rest
             ELSE IF /\ block.type = "text"
                     /\ block.text # <<>>
                     /\ block.text[1] \notin SYSTEM_MESSAGE_PATTERNS
             THEN <<TextToken(block.text)>> \o rest
             ELSE rest

\* The texts a message's content is made of, one per line.
RECURSIVE Lines(_)
Lines(content) ==
    LET breaks == { k \in 1..Len(content) : content[k] = Newline }
    IN  IF breaks = {} THEN <<TextToken(content)>>
        ELSE LET k == CHOOSE b \in breaks : \A c \in breaks : b <= c
             IN  <<TextToken(SubSeq(content, 1, k - 1))>>
                 \o Lines(SubSeq(content, k + 1, Len(content)))

\* The texts and tool calls of a list of chat items, in the order of the list.
RECURSIVE Shown(_)
Shown(items) ==
    IF items = <<>> THEN <<>>
    ELSE (IF IsToolCall(Head(items))
          THEN <<ToolToken(Head(items).tool_call.tool_call_id)>>
          ELSE Lines(Head(items).message.content))
         \o Shown(Tail(items))

\* C34: the chat items loaded from an assistant entry show its texts and tool
\* uses in the order of the content array: the texts before a tool_use block
\* are one assistant message before the tool call, the texts after it come
\* after it, and texts with no tool use between them are one message.
C34_AssistantBlocksKeepOrder ==
    IsSome(history.loaded) =>
        LET items == SelectSeq(Unwrap(history.loaded), IsAssistantItem)
        IN  /\ Shown(items) = Encountered(TheAssistantEntry.content)
            /\ \A i \in 1..(Len(items) - 1) :
                   ~(IsMessage(items[i]) /\ IsMessage(items[i + 1]))

\* Text, tool use, text was loaded as message, tool call, message.
C34_Witness ==
    /\ IsSome(history.loaded)
    /\ Len(TheAssistantEntry.content) = 3
    /\ TheAssistantEntry.content[1].type = "text"
    /\ TheAssistantEntry.content[2].type = "tool_use"
    /\ TheAssistantEntry.content[3].type = "text"
    /\ LET items == SelectSeq(Unwrap(history.loaded), IsAssistantItem)
       IN  /\ Len(items) = 3
           /\ IsMessage(items[1]) /\ IsToolCall(items[2]) /\ IsMessage(items[3])

\* ---------------------------------------------------------------- C35
\* C35: load_session_chat_items returns at most MAX_HISTORY_ITEMS (200)
\* items: all parsed items unchanged when there are no more than that, else
\* exactly the last 200 of them in their order, the oldest dropped.
C35_LoadKeepsLast200 ==
    IsSome(history.loaded) =>
        LET items == Unwrap(history.loaded)
            parsed == parsed_chat_items(history.file)
            total == Len(parsed)
        IN  /\ Len(items) <= 200
            /\ total <= 200 => items = parsed
            /\ total > 200 =>
                  /\ Len(items) = 200
                  /\ items = SubSeq(parsed, total - 199, total)
                  /\ items[1].message.id = <<"hist", total - 199>>

\* 203 items were parsed and 200 returned, the first of them the fourth.
C35_Witness ==
    /\ IsSome(history.loaded)
    /\ Len(parsed_chat_items(history.file)) = 203
    /\ Len(Unwrap(history.loaded)) = 200
    /\ Unwrap(history.loaded)[1].message.id = <<"hist", 4>>

\* ---------------------------------------------------------------- C36
\* C36: in standalone and headless mode every item taken off the AppState
\* notification and permission channels is taken by the server's forwarding
\* task, never by another consumer.
C36_ServerForwardsChannels ==
    app.mode \in {"standalone", "headless"} =>
        \A i \in 1..Len(app.consumed) : app.consumed[i].by = "forwarder"

\* ---------------------------------------------------------------- C37
\* C37: for each session/request_permission the agent sent, at most one
\* JSON-RPC response is ever written to the agent, whoever answers.
C37_AtMostOneResponsePerRequest ==
    \A j \in 1..Len(agent_requests) : Cardinality(ResponsesTo(j)) <= 1

\* ---------------------------------------------------------------- C38
\* A lazy start that finishes while a client is installed; the connect
\* method was never called, so the installed client came from a lazy start.
C38_Step ==
    \A t \in LazyTasks :
        ( /\ mgr_task["connect"] = [pc |-> "idle"]
          /\ mgr_task[t].pc = "starting"
          /\ mgr_task'[t].pc = "idle"
          /\ IsSome(agent_client) )
        => agent_spawns' = agent_spawns

\* C38: lazy agent start is single-shot: with concurrent callers of
\* ensure_agent_connected, a lazy start never spawns a second agent process
\* that replaces the client an earlier lazy start installed.
C38_LazyStartIsSingleShot == [][C38_Step]_vars

\* ---------------------------------------------------------------- C39
\* The step just taken was a client's respond_permission call that returned
\* Ok; the request it answered is the one whose response it wrote.
RespondSucceeded ==
    /\ Len(respond_results') = Len(respond_results) + 1
    /\ Last(respond_results') = "Ok"

HoldsRequest(pending, id_text) ==
    /\ IsSome(pending)
    /\ to_string(Unwrap(pending).request_id) = id_text

\* C39: when a respond_permission call for request R has returned Ok, no
\* session's pending_permission holds R, with or without sessionId in the
\* call.
C39_Step ==
    RespondSucceeded =>
        \A s \in SessionIds :
            ~HoldsRequest(pending_permission'[s], Last(agent_stdin').line.id)

C39_AnsweredRequestIsNotPending == [][C39_Step]_vars

\* ---------------------------------------------------------------- C40
\* No manager operation is between its lock sections.
NoManagerCallInProgress ==
    /\ sm_call = None
    /\ \A t \in EntryTasks : entry_tasks[t].pc = "idle"

\* C40: whenever no manager operation is in progress, a session id has a
\* state entry if and only if it has a subscription entry.
C40_StateIffSubscription ==
    NoManagerCallInProgress => DOMAIN states = DOMAIN subscriptions

\* s1 was removed, s2 created with history and subscribed to.
C40_Witness ==
    /\ NoManagerCallInProgress
    /\ DOMAIN states = {"s2"}
    /\ DOMAIN subscriptions = {"s2"}
    /\ states["s2"].chat_items # <<>>
    /\ subscriptions["s2"].subscribers # {}

====
